---- MODULE Spec2Model ----
(***************************************************************************)
(* AgentPayments gate runtime: the payment cache, the rate limiter and the *)
(* request decision procedure of the Node gate (sdk/node/index.js, kept in *)
(* src/unnamed/part_022 lines 1-329) and of the edge gate                  *)
(* (src/sdk/edge/index.js).                                                *)
(*                                                                         *)
(* Strings are sequences of one-character strings, so that slice, indexOf  *)
(* and startsWith are computed as the code computes them.  Times are       *)
(* milliseconds since the gate process was started at StartTime.           *)
(***************************************************************************)
EXTENDS Integers, Sequences, FiniteSets, Bags, TLC

VARIABLES
    now,            \* Date.now()
    paymentCache,   \* PaymentCache.cache: a Map, kept in insertion order
    hits,           \* RateLimiter.hits of the gate's limiter (swept by cleanup)
    refHits,        \* RateLimiter.hits of a limiter whose cleanup never runs
    windows,        \* per IP: the window opened by its first request, and its permits
    merchantConfig, \* the gate's cached merchant config (null until fetched)
    config,         \* the gate's configuration, fixed at construction
    last,           \* the last operation handled and its outcome
    ledger,         \* what the gate has granted: per agent key the last paid answer
                    \* of the verify service, per nonce the first cookie minted
    inflight,       \* the getMerchantConfig calls in progress, per request
    warnings,       \* default-secret warn events written by gateLog so far
    bulk,           \* a BulkVerifier of the verify service, its timers and its fetches
    hub             \* the wallet hub: its payments table, transfers and open requests

vars == <<now, paymentCache, hits, refHits, windows, merchantConfig, config, last, ledger,
          inflight, warnings, bulk, hub>>

\* The value of bulk and of hub where no BulkVerifier and no wallet hub runs.
NoBulk == [on |-> FALSE]
NoHub == [on |-> FALSE]

----------------------------------------------------------------------------
(* Bounds of the model *)

\* Capacity given to the PaymentCache constructor (its default is
\* PAYMENT_CACHE_MAX = 1000; the tests construct it with 2).
maxSize == 3

\* Largest number of clock advances explored in one behaviour.
MaxTicks == 3

\* Number of check calls explored beyond RATE_LIMIT_MAX in one window.
MaxOverLimit == 2

\* Date.now() when the gate is constructed (ms; cookies and nonces signed
\* before the process started carry smaller timestamps).
StartTime == 90000000

----------------------------------------------------------------------------
(* Program constants *)

PAYMENT_CACHE_TTL == 10 * 60 * 1000
RATE_LIMIT_WINDOW == 60 * 1000
RATE_LIMIT_MAX == 20
COOKIE_MAX_AGE == 86400
MAX_KEY_LENGTH == 64
MAX_NONCE_LENGTH == 128
MAX_RETURN_TO_LENGTH == 2048
MAX_FP_LENGTH == 128
KEY_PREFIX == <<"a", "g", "_">>
NONCE_MAX_AGE == 300000

\* JavaScript values that stand for "nothing", and the boolean true as a
\* cached value.
undefined == "undefined"
true == "true"

----------------------------------------------------------------------------
(* JavaScript string primitives *)

Min(a, b) == IF a < b THEN a ELSE b

\* String.prototype.slice(start, end), 0-based, end exclusive, clamped.
slice(s, start, end) == SubSeq(s, Min(start, Len(s)) + 1, Min(end, Len(s)))

\* String.prototype.slice(start).
sliceFrom(s, start) == SubSeq(s, Min(start, Len(s)) + 1, Len(s))

\* String.prototype.indexOf(ch): 0-based, -1 when absent.
indexOf(s, ch) ==
    LET at == {i \in 1..Len(s) : s[i] = ch}
    IN  IF at = {} THEN -1 ELSE (CHOOSE i \in at : \A j \in at : i <= j) - 1

\* String.prototype.startsWith(prefix).
startsWith(s, prefix) ==
    Len(s) >= Len(prefix) /\ SubSeq(s, 1, Len(prefix)) = prefix

DecDigits == <<"0", "1", "2", "3", "4", "5", "6", "7", "8", "9">>
HexDigits == <<"0", "1", "2", "3", "4", "5", "6", "7", "8", "9",
               "a", "b", "c", "d", "e", "f">>

DigitValue ==
    "0" :> 0 @@ "1" :> 1 @@ "2" :> 2 @@ "3" :> 3 @@ "4" :> 4 @@
    "5" :> 5 @@ "6" :> 6 @@ "7" :> 7 @@ "8" :> 8 @@ "9" :> 9

IsDecDigit(ch) == ch \in DOMAIN DigitValue

\* Number.prototype.toString() of a non-negative integer.
RECURSIVE toString(_)
toString(n) ==
    IF n < 10 THEN <<DecDigits[n + 1]>>
    ELSE Append(toString(n \div 10), DecDigits[(n % 10) + 1])

\* Number.parseInt(s, 10): an optional sign, then the longest run of decimal
\* digits; NaN when there is no digit.  Anything after the digits is ignored.
\* The result is [isNaN, n].
RECURSIVE parseDigits(_, _, _)
parseDigits(s, i, acc) ==
    IF i <= Len(s) /\ IsDecDigit(s[i])
    THEN parseDigits(s, i + 1, acc * 10 + DigitValue[s[i]])
    ELSE acc

parseInt(s) ==
    LET neg  == Len(s) >= 1 /\ s[1] = "-"
        body == IF Len(s) >= 1 /\ s[1] \in {"-", "+"} THEN sliceFrom(s, 1) ELSE s
    IN  IF Len(body) = 0 \/ ~IsDecDigit(body[1]) THEN [isNaN |-> TRUE, n |-> 0]
        ELSE [isNaN |-> FALSE,
              n |-> IF neg THEN 0 - parseDigits(body, 1, 0) ELSE parseDigits(body, 1, 0)]

----------------------------------------------------------------------------
(* hmacSign.  HMAC-SHA256 is replaced by a keyed hash of the same shape: a  *)
(* deterministic function of (data, secret) that yields 64 lowercase hex   *)
(* characters.  It is not the identity and not a prefix of its input, so a *)
(* signature can be wrong.                                                 *)

CharCode ==
    "0" :> 1 @@ "1" :> 2 @@ "2" :> 3 @@ "3" :> 4 @@ "4" :> 5 @@ "5" :> 6 @@
    "6" :> 7 @@ "7" :> 8 @@ "8" :> 9 @@ "9" :> 10 @@ "a" :> 11 @@ "b" :> 12 @@
    "c" :> 13 @@ "d" :> 14 @@ "e" :> 15 @@ "f" :> 16 @@ "g" :> 17 @@ "h" :> 18 @@
    "i" :> 19 @@ "j" :> 20 @@ "k" :> 21 @@ "l" :> 22 @@ "m" :> 23 @@ "n" :> 24 @@
    "o" :> 25 @@ "p" :> 26 @@ "q" :> 27 @@ "r" :> 28 @@ "s" :> 29 @@ "t" :> 30 @@
    "u" :> 31 @@ "v" :> 32 @@ "w" :> 33 @@ "x" :> 34 @@ "y" :> 35 @@ "z" :> 36 @@
    "_" :> 37 @@ "." :> 38 @@ ":" :> 39 @@ "-" :> 40 @@ "/" :> 41 @@ "+" :> 42 @@
    " " :> 43 @@ "=" :> 44 @@ "?" :> 45 @@ "&" :> 46 @@ "%" :> 47 @@ "X" :> 48

HashModulus == 32749

\* A position-weighted sum of the character codes of s[lo..hi], by halves.
RECURSIVE WeightedSum(_, _, _)
WeightedSum(s, lo, hi) ==
    IF lo > hi THEN 0
    ELSE IF lo = hi THEN CharCode[s[lo]] * (lo + 7)
    ELSE IF lo + 1 = hi THEN CharCode[s[lo]] * (lo + 7) + CharCode[s[hi]] * (hi + 7)
    ELSE LET mid == (lo + hi) \div 2
         IN  WeightedSum(s, lo, mid) + WeightedSum(s, mid + 1, hi)

Nibble(h, k) ==
    CASE k = 0 -> h % 16
      [] k = 1 -> (h \div 16) % 16
      [] k = 2 -> (h \div 256) % 16
      [] k = 3 -> (h \div 4096) % 16

\* The 64 hex characters written for the hash value h.
Digest(h) ==
    LET Four(x) == x \o x \o x \o x
    IN  Four(Four(<<HexDigits[Nibble(h, 3) + 1], HexDigits[Nibble(h, 1) + 1],
                    HexDigits[Nibble(h, 2) + 1], HexDigits[Nibble(h, 0) + 1]>>))

\* hmacSign signing with a fixed key instead of the secret.
hmacSign_Unkeyed(data, secret) ==
    LET Outer(key, inner) == (key * 257 + inner * 263 + 7) % HashModulus
        Keyed(key) ==
            Outer(key, (key * 211 + (WeightedSum(data, 1, Len(data)) % HashModulus) * 31
                        + Len(data)) % HashModulus)
    IN  Digest(Keyed(0))

\* hmacSign(data, secret): 64 hex characters.
hmacSign(data, secret) ==
    LET Outer(key, inner) == (key * 257 + inner * 263 + 7) % HashModulus
        Keyed(key) ==
            Outer(key, (key * 211 + (WeightedSum(data, 1, Len(data)) % HashModulus) * 31
                        + Len(data)) % HashModulus)
    IN  Digest(Keyed(WeightedSum(secret, 1, Len(secret)) % HashModulus))

----------------------------------------------------------------------------
(* PaymentCache: src/unnamed/part_022 lines 10-29 (the edge gate keeps the  *)
(* same code as getCachedPayment / setCachedPayment).  A Map is a sequence *)
(* of entries in insertion order: Map.set on a key already present keeps   *)
(* the key's place, Map.keys().next().value is the first entry's key.      *)

MapHas(m, key) == \E i \in 1..Len(m) : m[i].key = key
MapGet(m, key) == m[CHOOSE i \in 1..Len(m) : m[i].key = key]
MapDelete(m, key) == SelectSeq(m, LAMBDA e : e.key # key)
MapSet(m, key, entry) ==
    IF MapHas(m, key)
    THEN [i \in 1..Len(m) |-> IF m[i].key = key THEN entry ELSE m[i]]
    ELSE Append(m, entry)

\* PaymentCache.get with the TTL test turned around (>= for >).
PaymentCache_get_EarlyExpiry(cache, key, t) ==
    LET entry == MapGet(cache, key)
    IN  IF ~MapHas(cache, key) THEN [value |-> undefined, cache |-> cache]
        ELSE IF t - entry.ts >= PAYMENT_CACHE_TTL
             THEN [value |-> undefined, cache |-> MapDelete(cache, key)]
             ELSE [value |-> entry.value, cache |-> cache]

\* PaymentCache.get(key): the value returned and the Map afterwards.
PaymentCache_get(cache, key, t) ==
    LET entry == MapGet(cache, key)
    IN  IF ~MapHas(cache, key) THEN [value |-> undefined, cache |-> cache]
        ELSE IF t - entry.ts > PAYMENT_CACHE_TTL
             THEN [value |-> undefined, cache |-> MapDelete(cache, key)]
             ELSE [value |-> entry.value, cache |-> cache]

\* PaymentCache.set evicting one entry early (at maxSize - 1).
PaymentCache_set_EarlyEvict(cache, key, value, t) ==
    LET kept == IF Len(cache) >= maxSize - 1 THEN MapDelete(cache, cache[1].key) ELSE cache
    IN  MapSet(kept, key, [key |-> key, value |-> value, ts |-> t])

\* PaymentCache.set evicting only above capacity (> for >=).
PaymentCache_set_LateEvict(cache, key, value, t) ==
    LET kept == IF Len(cache) > maxSize THEN MapDelete(cache, cache[1].key) ELSE cache
    IN  MapSet(kept, key, [key |-> key, value |-> value, ts |-> t])

\* PaymentCache.set(key, value): the Map afterwards.
PaymentCache_set(cache, key, value, t) ==
    LET kept == IF Len(cache) >= maxSize THEN MapDelete(cache, cache[1].key) ELSE cache
    IN  MapSet(kept, key, [key |-> key, value |-> value, ts |-> t])

----------------------------------------------------------------------------
(* RateLimiter: src/unnamed/part_022 lines 41-64 (the edge gate keeps      *)
(* check as rateLimitCheck and has no cleanup).  hits is a Map whose order *)
(* nothing reads: a function from the keys present to {start, count}.      *)

EmptyMap == [k \in {} |-> 0]
Put(h, key, entry) == [k \in (DOMAIN h) \cup {key} |-> IF k = key THEN entry ELSE h[k]]
Remove(h, keys) == [k \in (DOMAIN h) \ keys |-> h[k]]

\* RateLimiter.check that keeps counting in an elapsed window (no reset).
RateLimiter_check_NoReset(h, key, t) ==
    IF key \notin DOMAIN h
    THEN [ok |-> TRUE, hits |-> Put(h, key, [start |-> t, count |-> 1])]
    ELSE LET count == h[key].count + 1
         IN  [ok   |-> ~(count > RATE_LIMIT_MAX),
              hits |-> Put(h, key, [start |-> h[key].start, count |-> count])]

\* RateLimiter.check comparing the count before incrementing it
\* (admits RATE_LIMIT_MAX + 1 calls).
RateLimiter_check_OffByOne(h, key, t) ==
    IF key \notin DOMAIN h \/ t - h[key].start > RATE_LIMIT_WINDOW
    THEN [ok |-> TRUE, hits |-> Put(h, key, [start |-> t, count |-> 1])]
    ELSE [ok   |-> ~(h[key].count > RATE_LIMIT_MAX),
          hits |-> Put(h, key, [start |-> h[key].start, count |-> h[key].count + 1])]

\* RateLimiter.check(key): the answer and the Map afterwards.
RateLimiter_check(h, key, t) ==
    IF key \notin DOMAIN h \/ t - h[key].start > RATE_LIMIT_WINDOW
    THEN [ok |-> TRUE, hits |-> Put(h, key, [start |-> t, count |-> 1])]
    ELSE LET count == h[key].count + 1
         IN  [ok   |-> ~(count > RATE_LIMIT_MAX),
              hits |-> Put(h, key, [start |-> h[key].start, count |-> count])]

\* RateLimiter.cleanup discarding a bucket as soon as it is a window old
\* (>= for >).
RateLimiter_cleanup_Eager(h, t) ==
    Remove(h, {k \in DOMAIN h : t - h[k].start >= RATE_LIMIT_WINDOW})

\* RateLimiter.cleanup(): the Map afterwards.
RateLimiter_cleanup(h, t) ==
    Remove(h, {k \in DOMAIN h : t - h[k].start > RATE_LIMIT_WINDOW})

----------------------------------------------------------------------------
(* Agent keys, payment memos, cookies and request classification:          *)
(* src/unnamed/part_022 lines 66-147, src/sdk/edge/index.js lines 59-95    *)
(* and 232-260.                                                            *)

DEFAULT_SECRET ==
    <<"d", "e", "f", "a", "u", "l", "t", "-", "s", "e", "c", "r", "e", "t", "-",
      "c", "h", "a", "n", "g", "e", "-", "m", "e">>

\* generateAgentKey signing the random part with an empty secret.
generateAgentKey_Unkeyed(random, secret) ==
    KEY_PREFIX \o random \o <<"_">> \o slice(hmacSign(random, <<>>), 0, 16)

\* generateAgentKey(secret); random is the 16 hex characters drawn from
\* crypto.randomUUID().
generateAgentKey(random, secret) ==
    KEY_PREFIX \o random \o <<"_">> \o slice(hmacSign(random, secret), 0, 16)

\* crypto.timingSafeEqual comparing the lengths only.
crypto_timingSafeEqual_LengthOnly(a, b) == [threw |-> Len(a) # Len(b), ok |-> TRUE]

\* crypto.timingSafeEqual(Buffer.from(a), Buffer.from(b)) of Node: a
\* RangeError when the byte lengths differ.
crypto_timingSafeEqual(a, b) == [threw |-> Len(a) # Len(b), ok |-> a = b]

\* timingSafeEqual(a, b) of the edge gate: false on a length difference, else
\* the comparison of the two HMAC digests, which agree exactly when a = b.
timingSafeEqual(a, b) == IF Len(a) # Len(b) THEN FALSE ELSE a = b

\* isValidAgentKey(key, secret) of the Node gate: [threw, ok].
isValidAgentKey(key, secret) ==
    LET Split(rest, underscoreIndex) ==
            IF underscoreIndex = -1 THEN [threw |-> FALSE, ok |-> FALSE]
            ELSE LET random   == slice(rest, 0, underscoreIndex)
                     sig      == sliceFrom(rest, underscoreIndex + 1)
                     expected == hmacSign(random, secret)
                 IN  crypto_timingSafeEqual(sig, slice(expected, 0, 16))
        Rest(rest) == Split(rest, indexOf(rest, "_"))
    IN  IF Len(key) = 0 \/ Len(key) > MAX_KEY_LENGTH \/ ~startsWith(key, KEY_PREFIX)
        THEN [threw |-> FALSE, ok |-> FALSE]
        ELSE Rest(sliceFrom(key, Len(KEY_PREFIX)))

\* isValidAgentKey(key, secret) of the edge gate: [threw, ok].
edge_isValidAgentKey(key, secret) ==
    LET Split(rest, underscoreIndex) ==
            IF underscoreIndex = -1 THEN [threw |-> FALSE, ok |-> FALSE]
            ELSE LET random   == slice(rest, 0, underscoreIndex)
                     sig      == sliceFrom(rest, underscoreIndex + 1)
                     expected == hmacSign(random, secret)
                 IN  [threw |-> FALSE, ok |-> timingSafeEqual(sig, slice(expected, 0, 16))]
        Rest(rest) == Split(rest, indexOf(rest, "_"))
    IN  IF Len(key) = 0 \/ Len(key) > MAX_KEY_LENGTH \/ ~startsWith(key, KEY_PREFIX)
        THEN [threw |-> FALSE, ok |-> FALSE]
        ELSE Rest(sliceFrom(key, Len(KEY_PREFIX)))

\* derivePaymentMemo(agentKey, secret)
derivePaymentMemo(agentKey, secret) ==
    <<"g", "m", "_">> \o slice(hmacSign(agentKey, secret), 0, 16)

\* isValidCookie refusing a cookie from the moment its age reaches
\* COOKIE_MAX_AGE (>= for >).
isValidCookie_StrictAge(cookie, secret, t) ==
    LET Signed(signature, expected) ==
            IF Len(signature) # Len(expected) THEN FALSE
            ELSE crypto_timingSafeEqual(signature, expected).ok
        Parsed(timestamp, signature, ts) ==
            IF ts.isNaN THEN FALSE
            ELSE IF t - ts.n >= COOKIE_MAX_AGE * 1000 THEN FALSE
            ELSE Signed(signature, hmacSign(timestamp, secret))
        Timestamp(timestamp, signature) == Parsed(timestamp, signature, parseInt(timestamp))
        Split(dotIndex) ==
            IF dotIndex = -1 THEN FALSE
            ELSE Timestamp(slice(cookie, 0, dotIndex), sliceFrom(cookie, dotIndex + 1))
    IN  IF Len(cookie) = 0 THEN FALSE ELSE Split(indexOf(cookie, "."))

\* isValidCookie(req, secret); cookie is the value getCookie extracted for
\* '__agp_verified', empty when the request carries none.
isValidCookie(cookie, secret, t) ==
    LET Signed(signature, expected) ==
            IF Len(signature) # Len(expected) THEN FALSE
            ELSE crypto_timingSafeEqual(signature, expected).ok
        Parsed(timestamp, signature, ts) ==
            IF ts.isNaN THEN FALSE
            ELSE IF t - ts.n > COOKIE_MAX_AGE * 1000 THEN FALSE
            ELSE Signed(signature, hmacSign(timestamp, secret))
        Timestamp(timestamp, signature) == Parsed(timestamp, signature, parseInt(timestamp))
        Split(dotIndex) ==
            IF dotIndex = -1 THEN FALSE
            ELSE Timestamp(slice(cookie, 0, dotIndex), sliceFrom(cookie, dotIndex + 1))
    IN  IF Len(cookie) = 0 THEN FALSE ELSE Split(indexOf(cookie, "."))

\* The paths the gate never examines further.
WELL_KNOWN == <<"/", ".", "w", "e", "l", "l", "-", "k", "n", "o", "w", "n", "/">>
ROBOTS_TXT == <<"/", "r", "o", "b", "o", "t", "s", ".", "t", "x", "t">>
VERIFY_PATH ==
    <<"/", "_", "_", "c", "h", "a", "l", "l", "e", "n", "g", "e", "/",
      "v", "e", "r", "i", "f", "y">>

\* isPublicPath treating the prefix as an exact path (=== for startsWith).
isPublicPath_ExactOnly(pathname, allowlist) ==
    IF pathname = ROBOTS_TXT THEN TRUE
    ELSE IF pathname = WELL_KNOWN THEN TRUE
    ELSE \E i \in 1..Len(allowlist) : allowlist[i] = pathname

\* isPublicPath(pathname, allowlist) of the edge gate; the Node gate has the
\* same function without the allowlist (an empty one here).
isPublicPath(pathname, allowlist) ==
    IF pathname = ROBOTS_TXT THEN TRUE
    ELSE IF startsWith(pathname, WELL_KNOWN) THEN TRUE
    ELSE \E i \in 1..Len(allowlist) : allowlist[i] = pathname

\* A header as the handler reads it: truthy when present and not empty.
Truthy(header) == header.present /\ Len(header.value) > 0

\* isBrowser requiring both headers (&& for ||).
isBrowser_BothHeaders(req) == Truthy(req.secFetchMode) /\ Truthy(req.secFetchDest)

\* isBrowser(req)
isBrowser(req) == Truthy(req.secFetchMode) \/ Truthy(req.secFetchDest)

----------------------------------------------------------------------------
(* Responses.  kind is "pass" (next() / fetchUpstream), "json", "redirect", *)
(* "html", or "throw" (the handler's promise rejected: no response sent).  *)

Respond(kind, status, message) ==
    [kind |-> kind, status |-> status, message |-> message,
     location |-> <<>>, setCookie |-> <<>>, yourKey |-> <<>>, memo |-> <<>>,
     nonce |-> <<>>, instructions |-> FALSE]

Pass == Respond("pass", 0, "")
Throw == Respond("throw", 0, "")

\* What one call of the handler did: the rule that decided the request, the
\* response, the shared structures afterwards and the outbound calls made.
Outcome(branch, res, h, c, m, verifyCalls, merchantFetches) ==
    [branch |-> branch, res |-> res, hits |-> h, cache |-> c, mc |-> m,
     verifyCalls |-> verifyCalls, merchantFetches |-> merchantFetches]

\* getMerchantConfig(): value is "config", "null" or "throw"; merchant is the
\* verify service's answer to GET /merchants/me, should it be asked.
getMerchantConfig(m, cfg, merchant) ==
    IF m.fetched THEN [value |-> "config", mc |-> m, fetches |-> 0]
    ELSE IF ~cfg.verifyConfigured THEN [value |-> "null", mc |-> m, fetches |-> 0]
    ELSE IF merchant = "ok"
         THEN [value |-> "config", mc |-> [fetched |-> TRUE], fetches |-> 1]
         ELSE [value |-> "throw", mc |-> m, fetches |-> 1]

\* verifyPaymentViaBackend answering true for every 2xx JSON body.
verifyPaymentViaBackend_AnyBody(verify) ==
    CASE verify = "paid"    -> "true"
      [] verify = "unpaid"  -> "true"
      [] verify = "non2xx"  -> "false"
      [] verify = "neterr"  -> "throw"
      [] verify = "badjson" -> "throw"

\* verifyPaymentViaBackend(memo, verifyUrl, apiKey): verify is the service's
\* answer.  fetch rejects on a network error and resp.json() on a body that
\* is not JSON; neither is caught.
verifyPaymentViaBackend(verify) ==
    CASE verify = "paid"    -> "true"
      [] verify = "unpaid"  -> "false"
      [] verify = "non2xx"  -> "false"
      [] verify = "neterr"  -> "throw"
      [] verify = "badjson" -> "throw"

\* safePath placing return_to in the Location header as submitted.
safePath_Unchecked(returnTo) == returnTo

\* const safePath = returnTo.startsWith('/') ? returnTo : '/'
safePath(returnTo) == IF startsWith(returnTo, <<"/">>) THEN returnTo ELSE <<"/">>

\* The POST /__challenge/verify branch (part_022 lines 217-255; edge/index.js
\* lines 309-348).
challengeVerify(req, cfg, h, c, m, t) ==
    LET Json(hits2, status, message) ==
            Outcome("verify", Respond("json", status, message), hits2, c, m, 0, 0)
        Accept(hits2, returnTo, nowStr) ==
            Outcome("verify",
                    [Respond("redirect", 302, "") EXCEPT
                        !.location = safePath(returnTo),
                        !.setCookie = nowStr \o <<".">> \o hmacSign(nowStr, cfg.secret)],
                    hits2, c, m, 0, 0)
        Signed(hits2, returnTo, nonceSig, expectedSig) ==
            IF Len(nonceSig) # Len(expectedSig) THEN Json(hits2, 403, "Invalid challenge.")
            ELSE IF ~crypto_timingSafeEqual(nonceSig, expectedSig).ok
                 THEN Json(hits2, 403, "Invalid challenge.")
            ELSE Accept(hits2, returnTo, toString(t))
        Parsed(hits2, returnTo, nonceTs, nonceSig, ts) ==
            IF ts.isNaN THEN Json(hits2, 403, "Challenge expired. Reload the page.")
            ELSE IF t - ts.n > NONCE_MAX_AGE
                 THEN Json(hits2, 403, "Challenge expired. Reload the page.")
            ELSE Signed(hits2, returnTo, nonceSig,
                        hmacSign(<<"n", "o", "n", "c", "e", ":">> \o nonceTs, cfg.secret))
        Timestamp(hits2, returnTo, nonceTs, nonceSig) ==
            Parsed(hits2, returnTo, nonceTs, nonceSig, parseInt(nonceTs))
        Fields(hits2, nonce, returnTo, fp, dotIndex) ==
            IF dotIndex = -1 \/ Len(fp) < 10
            THEN Json(hits2, 403, "Challenge verification failed.")
            ELSE Timestamp(hits2, returnTo, slice(nonce, 0, dotIndex),
                           sliceFrom(nonce, dotIndex + 1))
        Sliced(hits2, nonce, returnTo, fp) ==
            Fields(hits2, nonce, returnTo, fp, indexOf(nonce, "."))
        Limited(rl) ==
            IF ~rl.ok THEN Json(rl.hits, 429, "rate_limited")
            ELSE Sliced(rl.hits,
                        slice(req.nonce, 0, MAX_NONCE_LENGTH),
                        slice(IF Len(req.return_to) = 0 THEN <<"/">> ELSE req.return_to,
                              0, MAX_RETURN_TO_LENGTH),
                        slice(req.fp, 0, MAX_FP_LENGTH))
    IN  Limited(RateLimiter_check(h, req.ip, t))

\* The challenge page (part_022 lines 323-325): a fresh nonce in a 200 page.
challengePage(cfg, h, c, m, t) ==
    LET nonceTs  == toString(t)
        nonceSig == hmacSign(<<"n", "o", "n", "c", "e", ":">> \o nonceTs, cfg.secret)
    IN  Outcome("challenge",
                [Respond("html", 200, "") EXCEPT !.nonce = nonceTs \o <<".">> \o nonceSig],
                h, c, m, 0, 0)

\* The agent branch of the Node gate (part_022 lines 257-319).  env holds
\* what the outside answers during this request: the verify service's
\* answers and the random part of a new key.
agentFlow(req, cfg, env, h, c, m, t) ==
    LET agentKey == req.agentKey
        Json(status, message, c2, m2, vc, mf) ==
            Outcome("agent", Respond("json", status, message), h, c2, m2, vc, mf)
        Threw(c2, m2, vc, mf) == Outcome("agent", Throw, h, c2, m2, vc, mf)
        Issue(mcr, newKey) ==
            IF mcr.value = "throw" THEN Threw(c, mcr.mc, 0, mcr.fetches)
            ELSE IF mcr.value = "null"
                 THEN Json(500, "Payment verification not configured.", c, mcr.mc, 0, mcr.fetches)
            ELSE Outcome("agent",
                         [Respond("json", 402, "payment_required") EXCEPT
                             !.yourKey = newKey,
                             !.memo = derivePaymentMemo(newKey, cfg.secret),
                             !.instructions = TRUE],
                         h, c, mcr.mc, 0, mcr.fetches)
        Unpaid(c2, mcr) ==
            IF mcr.value = "throw" THEN Threw(c2, mcr.mc, 1, mcr.fetches)
            ELSE IF mcr.value = "null"
                 THEN Json(500, "Payment verification not configured.", c2, mcr.mc, 1, mcr.fetches)
            ELSE Outcome("agent",
                         [Respond("json", 402, "payment_required") EXCEPT
                             !.yourKey = agentKey,
                             !.memo = derivePaymentMemo(agentKey, cfg.secret)],
                         h, c2, mcr.mc, 1, mcr.fetches)
        Verified(c2, paid) ==
            IF paid = "throw" THEN Threw(c2, m, 1, 0)
            ELSE IF paid = "true"
                 THEN Outcome("agent", Pass, h, PaymentCache_set(c2, agentKey, true, t), m, 1, 0)
            ELSE Unpaid(c2, getMerchantConfig(m, cfg, env.merchant))
        Cached(got) ==
            IF got.value = true THEN Outcome("agent", Pass, h, got.cache, m, 0, 0)
            ELSE IF ~cfg.verifyConfigured
                 THEN Json(500, "Payment verification not configured.", got.cache, m, 0, 0)
            ELSE Verified(got.cache, verifyPaymentViaBackend(env.verify))
        Validated(valid) ==
            IF valid.threw THEN Threw(c, m, 0, 0)
            ELSE IF ~valid.ok
                 THEN Json(403, "Invalid API key. Keys must be issued by this server.", c, m, 0, 0)
            ELSE Cached(PaymentCache_get(c, agentKey, t))
    IN  IF Len(agentKey) = 0
        THEN Issue(getMerchantConfig(m, cfg, env.merchant),
                   generateAgentKey(env.random, cfg.secret))
        ELSE Validated(isValidAgentKey(agentKey, cfg.secret))

\* agentPaymentsGateMiddleware(req, res, next): part_022 lines 212-326.
agentPaymentsGateMiddleware(req, cfg, env, h, c, m, t) ==
    IF isPublicPath(req.path, <<>>) THEN Outcome("public", Pass, h, c, m, 0, 0)
    ELSE IF req.path = VERIFY_PATH /\ req.method = "POST"
         THEN challengeVerify(req, cfg, h, c, m, t)
    ELSE IF ~isBrowser(req) THEN agentFlow(req, cfg, env, h, c, m, t)
    ELSE IF isValidCookie(req.cookie, cfg.secret, t) THEN Outcome("cookie", Pass, h, c, m, 0, 0)
    ELSE challengePage(cfg, h, c, m, t)

\* BASE58_RE.test(walletAddress)
B58 ==
    {"1", "2", "3", "4", "5", "6", "7", "8", "9",
     "A", "B", "C", "D", "E", "F", "G", "H", "J", "K", "L", "M", "N", "P", "Q",
     "R", "S", "T", "U", "V", "W", "X", "Y", "Z",
     "a", "b", "c", "d", "e", "f", "g", "h", "i", "j", "k", "m", "n", "o", "p",
     "q", "r", "s", "t", "u", "v", "w", "x", "y", "z"}

BASE58_RE(walletAddress) ==
    /\ Len(walletAddress) >= 32
    /\ Len(walletAddress) <= 44
    /\ \A i \in 1..Len(walletAddress) : walletAddress[i] \in B58

\* verifyPaymentOnChain answering true whatever the chain holds.
verifyPaymentOnChain_Always(verify) == "true"

\* verifyPaymentOnChain(agentKey, walletAddress, rpcUrl, usdcMint): every RPC
\* failure is caught inside and answers false.
verifyPaymentOnChain(verify) == IF verify = "paid" THEN "true" ELSE "false"

\* The agent branch of the edge gate (edge/index.js lines 350-408).
edgeAgentFlow(req, cfg, env, h, c, m, t) ==
    LET agentKey == req.agentKey
        Json(status, message, c2, vc) ==
            Outcome("agent", Respond("json", status, message), h, c2, m, vc, 0)
        Issue(newKey) ==
            Outcome("agent",
                    [Respond("json", 402, "payment_required") EXCEPT
                        !.yourKey = newKey, !.memo = newKey, !.instructions = TRUE],
                    h, c, m, 0, 0)
        Cached(got) ==
            IF got.value = true THEN Outcome("agent", Pass, h, got.cache, m, 0, 0)
            ELSE IF verifyPaymentOnChain(env.verify) = "true"
                 THEN Outcome("agent", Pass, h,
                              PaymentCache_set(got.cache, agentKey, true, t), m, 1, 0)
            ELSE Outcome("agent",
                         [Respond("json", 402, "payment_required") EXCEPT
                             !.yourKey = agentKey, !.memo = agentKey],
                         h, got.cache, m, 1, 0)
    IN  IF Len(agentKey) = 0 THEN Issue(generateAgentKey(env.random, cfg.secret))
        ELSE IF ~edge_isValidAgentKey(agentKey, cfg.secret).ok
             THEN Json(403, "Invalid API key. Keys must be issued by this server.", c, 0)
        ELSE IF Len(cfg.walletAddress) = 0
             THEN Json(500, "Payment verification unavailable.", c, 0)
        ELSE Cached(PaymentCache_get(c, agentKey, t))

\* edgeGate(request, env, context): edge/index.js lines 285-417.
edgeGate(req, cfg, env, h, c, m, t) ==
    IF cfg.secret = DEFAULT_SECRET /\ ~cfg.debug
    THEN Outcome("refused",
                 Respond("json", 500, "Server misconfiguration: insecure default secret."),
                 h, c, m, 0, 0)
    ELSE IF Len(cfg.walletAddress) > 0 /\ ~BASE58_RE(cfg.walletAddress)
    THEN Outcome("refused",
                 Respond("json", 500, "Server misconfiguration: invalid wallet address."),
                 h, c, m, 0, 0)
    ELSE IF isPublicPath(req.path, cfg.publicPathAllowlist)
    THEN Outcome("public", Pass, h, c, m, 0, 0)
    ELSE IF req.path = VERIFY_PATH /\ req.method = "POST"
    THEN challengeVerify(req, cfg, h, c, m, t)
    ELSE IF ~isBrowser(req) THEN edgeAgentFlow(req, cfg, env, h, c, m, t)
    ELSE IF isValidCookie(req.cookie, cfg.secret, t) THEN Outcome("cookie", Pass, h, c, m, 0, 0)
    ELSE challengePage(cfg, h, c, m, t)

\* The handler the configured adapter installs.
gate(req, cfg, env, h, c, m, t) ==
    IF cfg.adapter = "node" THEN agentPaymentsGateMiddleware(req, cfg, env, h, c, m, t)
    ELSE edgeGate(req, cfg, env, h, c, m, t)

----------------------------------------------------------------------------
(* Deployments and requests.  A deployment is the configuration the gate   *)
(* was created with; a request comes with a label saying how it was built  *)
(* (which path family, whose signature, how old), which the handler never  *)
(* sees, and with env, the answers the outside gives while it is handled.  *)

\* agentPaymentsGate(config) / the environment edgeGate reads: the secret
\* falls back to the default when none is configured.
GateConfig(adapter, challengeSecret, verifyConfigured, debug, walletAddress, allowlist) ==
    [adapter |-> adapter,
     secret |-> IF Len(challengeSecret) = 0 THEN DEFAULT_SECRET ELSE challengeSecret,
     verifyConfigured |-> verifyConfigured,
     debug |-> debug,
     walletAddress |-> walletAddress,
     publicPathAllowlist |-> allowlist]

Secret == <<"s", "3", "c", "r", "3", "t">>
OtherSecret == <<"o", "t", "h", "3", "r">>
WALLET == [i \in 1..32 |-> "1"]
BAD_WALLET == <<"0", "x", "b", "a", "d">>
HEALTH == <<"/", "h", "e", "a", "l", "t", "h">>

NodeServing      == GateConfig("node", Secret, TRUE, TRUE, <<>>, <<>>)
NodeUnconfigured == GateConfig("node", Secret, FALSE, TRUE, <<>>, <<>>)
EdgeServing      == GateConfig("edge", Secret, FALSE, FALSE, WALLET, <<HEALTH>>)
EdgeNoWallet     == GateConfig("edge", Secret, FALSE, TRUE, <<>>, <<HEALTH>>)
EdgeDefaultProd  == GateConfig("edge", <<>>, FALSE, FALSE, WALLET, <<HEALTH>>)
EdgeBadWallet    == GateConfig("edge", Secret, FALSE, TRUE, BAD_WALLET, <<HEALTH>>)

\* The deployments that answer 500 to everything.
Refusing == {EdgeDefaultProd, EdgeBadWallet}

Absent == [present |-> FALSE, value |-> <<>>]
Header(value) == [present |-> TRUE, value |-> value]
NAVIGATE == <<"n", "a", "v", "i", "g", "a", "t", "e">>
DOCUMENT == <<"d", "o", "c", "u", "m", "e", "n", "t">>

Request(method, path, mode, dest, agentKey, cookie, nonce, return_to, fp, ip) ==
    [method |-> method, path |-> path, secFetchMode |-> mode, secFetchDest |-> dest,
     agentKey |-> agentKey, cookie |-> cookie, nonce |-> nonce,
     return_to |-> return_to, fp |-> fp, ip |-> ip]

Label(path, hdr, key, cookie, nonce) ==
    [path |-> path, hdr |-> hdr, key |-> key, cookie |-> cookie, nonce |-> nonce]

Quiet == [verify |-> "unpaid", merchant |-> "ok", random |-> [i \in 1..16 |-> HexDigits[i]]]

Input(req, label, env) == [req |-> req, label |-> label, env |-> env]

Zeros(n) == [i \in 1..n |-> "0"]
R1 == [i \in 1..16 |-> HexDigits[i]]
R2 == [i \in 1..16 |-> HexDigits[17 - i]]

DATA_PATH == <<"/", "d", "a", "t", "a">>
PAGE_PATH == <<"/", "p", "a", "g", "e">>
FP_OK == [i \in 1..12 |-> "a"]
FP_SHORT == [i \in 1..9 |-> "a"]
EVIL == <<"h", "t", "t", "p", "s", ":", "/", "/", "e", "v", "i", "l">>
Ip1 == "203.0.113.1"
Ip2 == "198.51.100.7"

\* What the gate itself hands out: the cookie set at time ts (part_022 lines
\* 243-247) and the nonce of a challenge page served at ts (lines 323-324).
mintCookie(ts, secret) == toString(ts) \o <<".">> \o hmacSign(toString(ts), secret)
mintNonce(ts, secret) ==
    toString(ts) \o <<".">> \o hmacSign(<<"n", "o", "n", "c", "e", ":">> \o toString(ts), secret)

\* Header combinations: neither header, one of them, both, and a
\* Sec-Fetch-Mode header that is present with an empty value.
NoHeaders == [mode |-> Absent, dest |-> Absent, hdr |-> "absent"]
ModeOnly == [mode |-> Header(NAVIGATE), dest |-> Absent, hdr |-> "present"]
DestOnly == [mode |-> Absent, dest |-> Header(DOCUMENT), hdr |-> "present"]
BothHeaders == [mode |-> Header(NAVIGATE), dest |-> Header(DOCUMENT), hdr |-> "present"]
EmptyMode == [mode |-> Header(<<>>), dest |-> Absent, hdr |-> "empty"]

Get(path, h, agentKey, cookie, ip) ==
    Request("GET", path, h.mode, h.dest, agentKey, cookie, <<>>, <<>>, <<>>, ip)

Post(h, nonce, return_to, fp, ip) ==
    Request("POST", VERIFY_PATH, h.mode, h.dest, <<>>, <<>>, nonce, return_to, fp, ip)

\* Requests for /robots.txt, a path under /.well-known/ and an allowlisted
\* path, as GET and as POST, from agents and from browsers.
PublicInputs(ips) ==
    { Input(Request(method, path, NoHeaders.mode, NoHeaders.dest,
                    <<>>, <<>>, <<>>, <<>>, <<>>, ip),
            Label(IF path = HEALTH THEN "allowlisted" ELSE "public",
                  "absent", "none", "none", "none"), Quiet) :
        method \in {"GET", "POST"},
        path \in {ROBOTS_TXT, WELL_KNOWN \o <<"a">>, HEALTH},
        ip \in ips }
    \cup
    { Input(Get(path, BothHeaders, <<>>, <<>>, ip),
            Label(IF path = HEALTH THEN "allowlisted" ELSE "public",
                  "present", "none", "none", "none"), Quiet) :
        path \in {ROBOTS_TXT, WELL_KNOWN \o <<"a">>, HEALTH},
        ip \in ips }

\* X-Agent-Key values: none, a key issued under the deployment's secret,
\* one issued under another secret, the all-zero key, a key with a short
\* signature, one without the second underscore and one of 65 characters.
AgentKeys(secret) ==
    {[key |-> <<>>, kind |-> "none"],
     [key |-> generateAgentKey(R1, secret), kind |-> "issued"],
     [key |-> generateAgentKey(R1, OtherSecret), kind |-> "foreign"],
     [key |-> KEY_PREFIX \o Zeros(16) \o <<"_">> \o Zeros(16), kind |-> "forged"],
     [key |-> KEY_PREFIX \o R1 \o <<"_">> \o Zeros(8), kind |-> "shortsig"],
     [key |-> KEY_PREFIX \o R1, kind |-> "malformed"],
     [key |-> generateAgentKey(R1, secret) \o Zeros(29), kind |-> "long"]}

\* What the outside answers while an agent request is handled.
AgentEnvs(kind) ==
    IF kind = "issued"
    THEN {[verify |-> v, merchant |-> "ok", random |-> R1] :
             v \in {"paid", "unpaid", "non2xx", "neterr", "badjson"}}
         \cup {[verify |-> "unpaid", merchant |-> "fail", random |-> R1]}
    ELSE IF kind = "none"
    THEN {[verify |-> "unpaid", merchant |-> "ok", random |-> R1],
          [verify |-> "unpaid", merchant |-> "ok", random |-> R2],
          [verify |-> "unpaid", merchant |-> "fail", random |-> R1]}
    ELSE {Quiet}

AgentInputs(secret) ==
    UNION { { Input(Get(DATA_PATH, NoHeaders, k.key, <<>>, Ip1),
                    Label("other", "absent", k.kind, "none", "none"), env) :
                env \in AgentEnvs(k.kind) } :
            k \in AgentKeys(secret) }
    \cup
    { Input(Get(path, NoHeaders, <<>>, <<>>, Ip1),
            Label(IF path = VERIFY_PATH THEN "verify" ELSE "other",
                  "absent", "none", "none", "none"), Quiet) :
        path \in {VERIFY_PATH, SubSeq(WELL_KNOWN, 1, Len(WELL_KNOWN) - 1)} }

\* Cookies: none, set just now, set exactly 24 hours ago, set a millisecond
\* before that, one with a forged signature and one signed under another
\* secret.
Cookies(secret, t) ==
    {[cookie |-> <<>>, kind |-> "none"],
     [cookie |-> mintCookie(t, secret), kind |-> "fresh"],
     [cookie |-> mintCookie(t - COOKIE_MAX_AGE * 1000, secret), kind |-> "atlimit"],
     [cookie |-> mintCookie(t - COOKIE_MAX_AGE * 1000 - 1, secret), kind |-> "expired"],
     [cookie |-> toString(t) \o <<".">> \o Zeros(64), kind |-> "forged"],
     [cookie |-> mintCookie(t, OtherSecret), kind |-> "foreign"]}

BrowserInputs(secret, t) ==
    { Input(Get(PAGE_PATH, ModeOnly, <<>>, ck.cookie, Ip1),
            Label("other", "present", "none", ck.kind, "none"), Quiet) :
        ck \in Cookies(secret, t) }
    \cup
    { Input(Get(path, h, <<>>, cookie, Ip1),
            Label(IF path = VERIFY_PATH THEN "verify" ELSE "other", "present", "none",
                  IF Len(cookie) = 0 THEN "none" ELSE "fresh", "none"), Quiet) :
        path \in {PAGE_PATH, VERIFY_PATH},
        h \in {DestOnly, BothHeaders},
        cookie \in {<<>>, mintCookie(t, secret)} }
    \cup
    { Input(Get(PAGE_PATH, ModeOnly, generateAgentKey(R1, secret), <<>>, Ip1),
            Label("other", "present", "issued", "none", "none"),
            [Quiet EXCEPT !.verify = "paid"]) }

\* Requests whose Sec-Fetch-Mode header is present and empty: with and
\* without a paid key, and with a fresh cookie.
EmptyHeaderInputs(secret, t) ==
    { Input(Get(DATA_PATH, EmptyMode, k.key, <<>>, Ip1),
            Label("other", "empty", k.kind, "none", "none"),
            [Quiet EXCEPT !.verify = "paid"]) :
        k \in {x \in AgentKeys(secret) : x.kind \in {"none", "issued"}} }
    \cup
    { Input(Get(PAGE_PATH, EmptyMode, <<>>, mintCookie(t, secret), Ip1),
            Label("other", "empty", "none", "fresh", "none"), Quiet) }

\* Nonces posted to /__challenge/verify: from a page served just now, five
\* minutes ago and a millisecond before that, forged, without a dot, none.
Nonces(secret, t) ==
    {[nonce |-> mintNonce(t, secret), kind |-> "fresh"],
     [nonce |-> mintNonce(t - NONCE_MAX_AGE, secret), kind |-> "atlimit"],
     [nonce |-> mintNonce(t - NONCE_MAX_AGE - 1, secret), kind |-> "expired"],
     [nonce |-> toString(t) \o <<".">> \o Zeros(64), kind |-> "forged"],
     [nonce |-> toString(t), kind |-> "nodot"],
     [nonce |-> <<>>, kind |-> "none"]}

VerifyInputs(secret, t, ips) ==
    { Input(Post(NoHeaders, n.nonce, PAGE_PATH, FP_OK, ip),
            Label("verify", "absent", "none", "none", n.kind), Quiet) :
        n \in Nonces(secret, t), ip \in ips }
    \cup
    { Input(Post(BothHeaders, n.nonce, PAGE_PATH, FP_OK, ip),
            Label("verify", "present", "none", "none", n.kind), Quiet) :
        n \in {x \in Nonces(secret, t) : x.kind \in {"fresh", "forged"}}, ip \in ips }
    \cup
    { Input(Post(ModeOnly, mintNonce(t, secret), rt, FP_OK, ip),
            Label("verify", "present", "none", "none", "fresh"), Quiet) :
        rt \in {<<>>, EVIL}, ip \in ips }
    \cup
    { Input(Post(ModeOnly, mintNonce(t, secret), PAGE_PATH, FP_SHORT, ip),
            Label("verify", "present", "none", "none", "shortfp"), Quiet) :
        ip \in ips }

----------------------------------------------------------------------------
(* The payment cache on its own: any stream of set and get calls, with the *)
(* clock advancing in between.                                             *)

\* Keys presented to the cache: one more than its capacity.
CacheKeys == { <<"k">> \o toString(i) : i \in 1..(maxSize + 1) }

NoConfig == [adapter |-> "none"]

InitCache ==
    /\ now = StartTime
    /\ paymentCache = <<>>
    /\ hits = EmptyMap
    /\ refHits = EmptyMap
    /\ windows = EmptyMap
    /\ merchantConfig = [fetched |-> FALSE]
    /\ config = NoConfig
    /\ last = [op |-> "init"]
    /\ ledger = EmptyMap
    /\ inflight = EmptyMap
    /\ warnings = 0
    /\ bulk = NoBulk
    /\ hub = NoHub

\* cache.set(key, true)
CacheSet(key) ==
    /\ paymentCache' = PaymentCache_set(paymentCache, key, true, now)
    /\ last' = [op |-> "set", key |-> key, sizeBefore |-> Len(paymentCache),
                held |-> MapHas(paymentCache, key)]
    /\ UNCHANGED <<now, hits, refHits, windows, merchantConfig, config, ledger, inflight, warnings, bulk, hub>>

\* cache.get(key); last records whether an entry was stored and how old it was.
CacheGet(key) ==
    LET r == PaymentCache_get(paymentCache, key, now)
    IN  /\ paymentCache' = r.cache
        /\ last' = [op |-> "get", key |-> key, value |-> r.value,
                    stored |-> MapHas(paymentCache, key),
                    age |-> IF MapHas(paymentCache, key)
                            THEN now - MapGet(paymentCache, key).ts ELSE 0]
        /\ UNCHANGED <<now, hits, refHits, windows, merchantConfig, config, ledger, inflight, warnings, bulk, hub>>

\* Half a TTL passes.
CacheTick ==
    /\ now + (PAYMENT_CACHE_TTL \div 2) <= StartTime + MaxTicks * (PAYMENT_CACHE_TTL \div 2)
    /\ now' = now + (PAYMENT_CACHE_TTL \div 2)
    /\ UNCHANGED <<paymentCache, hits, refHits, windows, merchantConfig, config, last, ledger, inflight, warnings, bulk, hub>>

NextCache ==
    \/ \E key \in CacheKeys : CacheSet(key)
    \/ \E key \in CacheKeys : CacheGet(key)
    \/ CacheTick

SpecCache == InitCache /\ [][NextCache]_vars

\* C8: after any sequence of set and get operations, with any keys, the
\* cache holds at most maxSize (1000 in the gate) entries.
C8_CapacityBounded ==
    Cardinality({paymentCache[i].key : i \in 1..Len(paymentCache)}) <= maxSize
    /\ Len(paymentCache) <= maxSize

\* A set that found the cache full of other keys has just happened.
C8_Witness ==
    /\ last.op = "set" /\ last.sizeBefore = maxSize /\ ~last.held
    /\ Len(paymentCache) = maxSize

\* C9: when set finds the cache at capacity, the entry it evicts has the
\* earliest timestamp of the entries held, a re-inserted key counting with
\* its refreshed timestamp.
C9_EvictsEarliestTimestamp ==
    [][ (last'.op = "set" /\ Len(paymentCache) >= maxSize) =>
          \A i \in 1..Len(paymentCache) :
             (paymentCache[i].key # last'.key /\ ~MapHas(paymentCache', paymentCache[i].key))
             => \A j \in 1..Len(paymentCache) : paymentCache[i].ts <= paymentCache[j].ts
      ]_vars

\* C10: get answers undefined exactly when no entry is stored for the key or
\* the stored entry is more than 600000 ms old; otherwise it answers the
\* stored value.
C10_GetAbsentIffMissingOrExpired ==
    last.op = "get" =>
        /\ (last.value = undefined) <=> (~last.stored \/ last.age > 600000)
        /\ (last.stored /\ last.age <= 600000) => last.value = true

\* A get has just answered an entry that is exactly 600000 ms old.
C10_Witness ==
    last.op = "get" /\ last.stored /\ last.age = 600000 /\ last.value = true

\* The entry stored for key k is no more than 600000 ms old.
CachedPaid(k) ==
    /\ MapHas(paymentCache, k)
    /\ now - MapGet(paymentCache, k).ts <= 600000

\* The step is a set or get on another key than k and leaves k's entry as
\* it was.
KeepsEntry(k) ==
    /\ MapHas(paymentCache', k)
    /\ MapGet(paymentCache', k) = MapGet(paymentCache, k)

\* C11 as stated: once a key is cached as paid at time t, every get for it
\* up to t + 600000 ms answers true, whatever set and get operations on
\* other keys happen in between (none of them removes or alters its entry).
C11_PaidUntilTTL ==
    [][ \A k \in CacheKeys :
          (CachedPaid(k) /\ now' = now /\ last'.op \in {"set", "get"}) =>
             IF last'.key = k
             THEN last'.op = "get" => last'.value = true
             ELSE KeepsEntry(k)
      ]_vars

\* C11, amended: once a key is cached as paid at time t, every get for it
\* up to t + 600000 ms answers true, whatever get operations and whatever
\* set operations below capacity happen on other keys in between; the only
\* operation on another key that removes its entry is a set that finds the
\* cache at capacity while the key is the first in insertion order.
C11_PaidUntilTTLOrEvicted ==
    [][ \A k \in CacheKeys :
          (CachedPaid(k) /\ now' = now /\ last'.op \in {"set", "get"}) =>
             IF last'.key = k
             THEN last'.op = "get" => last'.value = true
             ELSE \/ KeepsEntry(k)
                  \/ /\ last'.op = "set"
                     /\ Len(paymentCache) >= maxSize
                     /\ paymentCache[1].key = k
                     /\ ~MapHas(paymentCache', k)
      ]_vars

\* A get has just answered true for an entry exactly 600000 ms old that is
\* the oldest of a full cache: other keys were set after it.
C11_Witness ==
    /\ last.op = "get" /\ last.value = true /\ last.age = 600000
    /\ Len(paymentCache) = maxSize
    /\ paymentCache[1].key = last.key
    /\ \A i \in 2..Len(paymentCache) : paymentCache[i].ts > paymentCache[1].ts

----------------------------------------------------------------------------
(* The rate limiter on its own: check calls from a few client IPs, the      *)
(* cleanup timer firing at any moment, the clock advancing in between.     *)
(* refHits is a second limiter that receives the same check calls and is   *)
(* never swept.  windows keeps, per IP, the window opened by the IP's first *)
(* request (or by its first request after that window elapsed), the number *)
(* of calls made in it and the number of them that were permitted.         *)

ClientIps == {Ip1, Ip2}

WindowElapsed(w, ip, t) == ip \in DOMAIN w /\ t - w[ip].start > 60000

CountCall(w, ip, t, ok) ==
    IF ip \notin DOMAIN w \/ t - w[ip].start > 60000
    THEN Put(w, ip, [start |-> t, calls |-> 1, permits |-> IF ok THEN 1 ELSE 0])
    ELSE Put(w, ip, [start   |-> w[ip].start,
                     calls   |-> w[ip].calls + 1,
                     permits |-> w[ip].permits + (IF ok THEN 1 ELSE 0)])

\* The calls explored in one window stop MaxOverLimit past the limit.
CanCall(ip) ==
    IF ip \notin DOMAIN windows THEN TRUE
    ELSE IF WindowElapsed(windows, ip, now) THEN TRUE
    ELSE windows[ip].calls < RATE_LIMIT_MAX + MaxOverLimit

InitRL == InitCache

\* rateLimiter.check(ip), made on both limiters.
RLCheck(ip) ==
    LET r   == RateLimiter_check(hits, ip, now)
        ref == RateLimiter_check(refHits, ip, now)
    IN  /\ CanCall(ip)
        /\ hits' = r.hits
        /\ refHits' = ref.hits
        /\ windows' = CountCall(windows, ip, now, r.ok)
        /\ last' = [op |-> "check", key |-> ip, ok |-> r.ok, refOk |-> ref.ok,
                    at |-> now, entry |-> r.hits[ip],
                    elapsed |-> WindowElapsed(windows, ip, now),
                    deniedBefore |-> ip \in DOMAIN windows /\ windows[ip].calls > 20,
                    swept |-> ip \in DOMAIN refHits /\ ip \notin DOMAIN hits]
        /\ UNCHANGED <<now, paymentCache, merchantConfig, config, ledger, inflight, warnings, bulk, hub>>

\* The setInterval callback: rateLimiter.cleanup().
RLCleanup ==
    /\ hits' = RateLimiter_cleanup(hits, now)
    /\ UNCHANGED <<now, paymentCache, refHits, windows, merchantConfig, config, last, ledger, inflight, warnings, bulk, hub>>

\* Half a window passes.
RLTick ==
    /\ now + (RATE_LIMIT_WINDOW \div 2) <= StartTime + MaxTicks * (RATE_LIMIT_WINDOW \div 2)
    /\ now' = now + (RATE_LIMIT_WINDOW \div 2)
    /\ UNCHANGED <<paymentCache, hits, refHits, windows, merchantConfig, config, last, ledger, inflight, warnings, bulk, hub>>

NextRL ==
    \/ \E ip \in ClientIps : RLCheck(ip)
    \/ RLCleanup
    \/ RLTick

SpecRL == InitRL /\ [][NextRL]_vars

\* C4: for every client IP, in one 60-second window opened by the IP's first
\* request, at most 20 check calls answer true, and the 21st and every later
\* call of that window answers false.
C4_AtMost20PerWindow ==
    \A ip \in DOMAIN windows :
        /\ windows[ip].permits <= 20
        /\ (last.op = "check" /\ last.key = ip /\ windows[ip].calls >= 21) => ~last.ok

\* The 21st call of a window has just been refused, after 20 permits.
C4_Witness ==
    /\ last.op = "check" /\ ~last.ok
    /\ windows[last.key].calls = 21 /\ windows[last.key].permits = 20

\* C5: once the window opened by an IP's first request has elapsed, the next
\* check call answers true and starts a new window with the count reset,
\* also when the IP was being refused at the end of the previous window.
C5_NewWindowAfterElapse ==
    (last.op = "check" /\ last.elapsed) =>
        /\ last.ok
        /\ last.entry = [start |-> last.at, count |-> 1]
        /\ windows[last.key].start = last.at /\ windows[last.key].calls = 1

\* A call has just been permitted after a window in which the IP was refused.
C5_Witness ==
    last.op = "check" /\ last.elapsed /\ last.deniedBefore /\ last.ok

\* C6: every check call answers the same on the limiter that is swept by
\* cleanup as on the limiter that is never swept, whenever the sweeps run.
C6_SweepIndependent ==
    last.op = "check" => last.ok = last.refOk

\* A check call has just been answered for an IP whose bucket the sweep had
\* discarded and the unswept limiter still held.
C6_Witness ==
    last.op = "check" /\ last.swept /\ last.deniedBefore

----------------------------------------------------------------------------
(* The gate: one deployment, requests arriving one at a time, the clock    *)
(* advancing in between, and on the Node gate the cleanup timer.  windows  *)
(* counts, per client IP, the POSTs to /__challenge/verify in the window   *)
(* opened by the IP's first one.                                           *)

MaxGateTicks == 2
MaxVerifyPosts == 1

Deployments == {NodeServing, NodeUnconfigured, EdgeServing, EdgeNoWallet}

Inputs(cfg, t) ==
    PublicInputs({Ip1}) \cup AgentInputs(cfg.secret) \cup BrowserInputs(cfg.secret, t)
    \cup EmptyHeaderInputs(cfg.secret, t) \cup VerifyInputs(cfg.secret, t, {Ip1})

IsVerifyPost(req) == req.method = "POST" /\ req.path = VERIFY_PATH

\* One request handled from arrival to response.
Handle(i) ==
    LET Done(o) ==
            /\ hits' = o.hits
            /\ paymentCache' = o.cache
            /\ merchantConfig' = o.mc
            /\ windows' = IF IsVerifyPost(i.req)
                          THEN CountCall(windows, i.req.ip, now, o.res.status # 429)
                          ELSE windows
            /\ last' = [op |-> "request", req |-> i.req, label |-> i.label, env |-> i.env,
                        res |-> o.res, branch |-> o.branch, at |-> now,
                        cachedBefore |-> /\ MapHas(paymentCache, i.req.agentKey)
                                         /\ now - MapGet(paymentCache, i.req.agentKey).ts <= 600000,
                        limitedBefore |-> /\ i.req.ip \in DOMAIN windows
                                          /\ now - windows[i.req.ip].start <= 60000
                                          /\ windows[i.req.ip].calls > 20,
                        verifyCalls |-> o.verifyCalls, merchantFetches |-> o.merchantFetches]
            /\ UNCHANGED <<now, refHits, config, ledger, inflight, warnings, bulk, hub>>
    IN  Done(gate(i.req, config, i.env, hits, paymentCache, merchantConfig, now))

CanPost(ip, cap) ==
    IF ip \notin DOMAIN windows THEN TRUE
    ELSE IF WindowElapsed(windows, ip, now) THEN TRUE
    ELSE windows[ip].calls < cap

Init ==
    /\ now = StartTime
    /\ paymentCache = <<>>
    /\ hits = EmptyMap
    /\ refHits = EmptyMap
    /\ windows = EmptyMap
    /\ merchantConfig = [fetched |-> FALSE]
    /\ config \in Deployments
    /\ last = [op |-> "init"]
    /\ ledger = EmptyMap
    /\ inflight = EmptyMap
    /\ warnings = 0
    /\ bulk = NoBulk
    /\ hub = NoHub

GateRequest(i) ==
    /\ IsVerifyPost(i.req) => CanPost(i.req.ip, MaxVerifyPosts)
    /\ Handle(i)

\* setInterval(() => rateLimiter.cleanup(), 60000) of the Node gate.
GateCleanup ==
    /\ config.adapter = "node"
    /\ hits' = RateLimiter_cleanup(hits, now)
    /\ UNCHANGED <<now, paymentCache, refHits, windows, merchantConfig, config, last, ledger, inflight, warnings, bulk, hub>>

\* A payment-cache TTL passes.
GateTick ==
    /\ now + PAYMENT_CACHE_TTL <= StartTime + MaxGateTicks * PAYMENT_CACHE_TTL
    /\ now' = now + PAYMENT_CACHE_TTL
    /\ UNCHANGED <<paymentCache, hits, refHits, windows, merchantConfig, config, last, ledger, inflight, warnings, bulk, hub>>

Next ==
    \/ \E i \in Inputs(config, now) : GateRequest(i)
    \/ GateCleanup
    \/ GateTick

Spec == Init /\ [][Next]_vars

\* The request just handled asked for a public path: /robots.txt, a path
\* under /.well-known/, or a path on the deployment's publicPathAllowlist.
AskedPublicPath ==
    \/ last.label.path = "public"
    \/ /\ last.label.path = "allowlisted"
       /\ \E k \in 1..Len(config.publicPathAllowlist) :
             config.publicPathAllowlist[k] = last.req.path

\* C1: a request is passed through only if its path is public, or it is a
\* browser request (one carrying a Sec-Fetch-Mode or Sec-Fetch-Dest header)
\* with a validly signed, unexpired cookie, or it is an agent request (one
\* carrying neither header) whose key was issued under the current secret
\* and is unexpired in the payment cache or was reported paid during this
\* request.
C1_PassOnlyIfEntitled ==
    (last.op = "request" /\ last.res.kind = "pass") =>
        \/ AskedPublicPath
        \/ /\ last.label.hdr # "absent"
           /\ last.label.cookie \in {"fresh", "atlimit"}
        \/ /\ last.label.hdr = "absent"
           /\ last.label.key = "issued"
           /\ (last.cachedBefore \/ last.env.verify = "paid")

\* C2: every request is decided by the first rule that matches, in the
\* order public path, POST /__challenge/verify, neither Sec-Fetch header
\* present (agent flow), valid cookie, challenge page.
C2_FirstMatchingRule ==
    last.op = "request" =>
        last.branch =
            IF AskedPublicPath THEN "public"
            ELSE IF last.label.path = "verify" /\ last.req.method = "POST" THEN "verify"
            ELSE IF last.label.hdr = "absent" THEN "agent"
            ELSE IF last.label.cookie \in {"fresh", "atlimit"} THEN "cookie"
            ELSE "challenge"

----------------------------------------------------------------------------
(* The gate under a stream of challenge posts: POSTs to /__challenge/verify *)
(* from one client IP up to MaxOverLimit past the limit in a window, with  *)
(* requests for public paths and pages in between, on deployments that     *)
(* serve and on deployments that refuse to.                                *)

ChallengeDeployments == {NodeServing, EdgeServing, EdgeDefaultProd, EdgeBadWallet}

ChallengeInputs(cfg, t) ==
    {x \in VerifyInputs(cfg.secret, t, {Ip1}) :
        x.label.hdr = "absent" /\ x.label.nonce \in {"fresh", "forged", "nodot"}}
    \cup {x \in PublicInputs({Ip1}) : x.label.hdr = "absent"}
    \cup {Input(Get(PAGE_PATH, ModeOnly, <<>>, <<>>, Ip1),
                Label("other", "present", "none", "none", "none"), Quiet)}

InitChallenge ==
    /\ now = StartTime
    /\ paymentCache = <<>>
    /\ hits = EmptyMap
    /\ refHits = EmptyMap
    /\ windows = EmptyMap
    /\ merchantConfig = [fetched |-> FALSE]
    /\ config \in ChallengeDeployments
    /\ last = [op |-> "init"]
    /\ ledger = EmptyMap
    /\ inflight = EmptyMap
    /\ warnings = 0
    /\ bulk = NoBulk
    /\ hub = NoHub

ChallengeRequest(i) ==
    /\ IsVerifyPost(i.req) => CanPost(i.req.ip, RATE_LIMIT_MAX + MaxOverLimit)
    /\ Handle(i)

NextChallenge ==
    \/ \E i \in ChallengeInputs(config, now) : ChallengeRequest(i)
    \/ GateCleanup
    \/ RLTick

SpecChallenge == InitChallenge /\ [][NextChallenge]_vars

----------------------------------------------------------------------------
(* The agent path on its own: agents presenting keys the gate has issued,  *)
(* one key more than the payment cache holds, with the verify service      *)
(* answering paid, unpaid or failing, and the clock advancing in between.  *)
(* ledger keeps, per key, the time of the last paid answer the gate got    *)
(* for it and whether the key validated under the gate's secret then.      *)

AgentDeployments == {NodeServing, NodeUnconfigured, EdgeServing}

\* crypto.randomUUID().replace(/-/g, '').slice(0, 16) of the i-th key issued
Rand(i) == [j \in 1..16 |-> HexDigits[((i + j) % 16) + 1]]

\* A key of exactly MAX_KEY_LENGTH characters that validates under secret
\* (isValidAgentKey accepts a random part of any length).
Key64(secret) ==
    KEY_PREFIX \o Zeros(44) \o <<"_">> \o slice(hmacSign(Zeros(44), secret), 0, 16)

AgentGet(key, kind, env) ==
    Input(Get(DATA_PATH, NoHeaders, key, <<>>, Ip1),
          Label("other", "absent", kind, "none", "none"), env)

VerifyAnswers == {"paid", "unpaid", "non2xx", "neterr", "badjson"}

AgentOnlyInputs(secret) ==
    { AgentGet(generateAgentKey(Rand(1), secret), "issued",
               [verify |-> v, merchant |-> "ok", random |-> R1]) : v \in VerifyAnswers }
    \cup
    { AgentGet(generateAgentKey(Rand(1), secret), "issued",
               [verify |-> "unpaid", merchant |-> "fail", random |-> R1]) }
    \cup
    { AgentGet(<<>>, "none", [verify |-> "unpaid", merchant |-> mr, random |-> R2]) :
        mr \in {"ok", "fail"} }
    \cup
    { AgentGet(k.key, k.kind, [verify |-> "unpaid", merchant |-> "ok", random |-> R1]) :
        k \in {[key |-> Key64(secret), kind |-> "issued64"],
               [key |-> Key64(secret) \o <<"x">>, kind |-> "long65"]} }
    \cup
    { AgentGet(k.key, k.kind, [verify |-> "paid", merchant |-> "ok", random |-> R1]) :
        k \in {[key |-> generateAgentKey(Rand(1), secret) \o Zeros(29), kind |-> "long"],
               [key |-> generateAgentKey(Rand(1), OtherSecret), kind |-> "foreign"]} }

\* Other paying agents: the n-th key issued, whose payment verifies.
OtherAgent(n, secret) ==
    AgentGet(generateAgentKey(Rand(n), secret), "other",
             [verify |-> "paid", merchant |-> "ok", random |-> R1])

\* One agent request handled from arrival to response.
AgentHandle(i) ==
    LET Done(o) ==
            /\ hits' = o.hits
            /\ paymentCache' = o.cache
            /\ merchantConfig' = o.mc
            /\ ledger' = IF o.verifyCalls = 1 /\ i.env.verify = "paid"
                         THEN Put(ledger, i.req.agentKey,
                                  [at |-> now,
                                   valid |-> edge_isValidAgentKey(i.req.agentKey,
                                                                  config.secret).ok])
                         ELSE ledger
            /\ last' = [op |-> "request", req |-> i.req, label |-> i.label, env |-> i.env,
                        res |-> o.res, branch |-> o.branch, at |-> now,
                        fetchedBefore |-> merchantConfig.fetched,
                        again |-> IF last.op = "request"
                                  THEN /\ last.req = i.req
                                       /\ last.env.verify = "unpaid"
                                       /\ last.res.status = 402
                                  ELSE FALSE,
                        verifyCalls |-> o.verifyCalls,
                        merchantFetches |-> o.merchantFetches]
            /\ UNCHANGED <<now, refHits, windows, config, inflight, warnings, bulk, hub>>
    IN  Done(gate(i.req, config, i.env, hits, paymentCache, merchantConfig, now))

InitAgent ==
    /\ now = StartTime
    /\ paymentCache = <<>>
    /\ hits = EmptyMap
    /\ refHits = EmptyMap
    /\ windows = EmptyMap
    /\ merchantConfig = [fetched |-> FALSE]
    /\ config \in AgentDeployments
    /\ last = [op |-> "init"]
    /\ ledger = EmptyMap
    /\ inflight = EmptyMap
    /\ warnings = 0
    /\ bulk = NoBulk
    /\ hub = NoHub

AgentRequest(i) == AgentHandle(i)

\* The other agents arrive one after the other while the first key is cached.
OtherAgentRequest(n) ==
    /\ MapHas(paymentCache, generateAgentKey(Rand(1), config.secret))
    /\ n > 2 => MapHas(paymentCache, generateAgentKey(Rand(n - 1), config.secret))
    /\ ~MapHas(paymentCache, generateAgentKey(Rand(n), config.secret))
    /\ AgentHandle(OtherAgent(n, config.secret))

NextAgent ==
    \/ \E i \in AgentOnlyInputs(config.secret) : AgentRequest(i)
    \/ \E n \in 2..(maxSize + 1) : OtherAgentRequest(n)
    \/ GateTick

SpecAgent == InitAgent /\ [][NextAgent]_vars

\* The key of the request just handled, and the step being a request.
AskedKey == last'.req.agentKey
RequestStep == now' = now /\ last'.op = "request"

\* The verify service answered paid for the key no more than 600000 ms ago.
PaidWithinTTL(key) ==
    /\ key \in DOMAIN ledger
    /\ now - ledger[key].at <= 600000

\* C12 as stated: after a request presenting key k has been verified paid,
\* every later request presenting k within the cache TTL is passed through
\* and makes no outbound verify call.
C12_NoFurtherVerifyCall ==
    [][ (RequestStep /\ PaidWithinTTL(AskedKey)) =>
           (last'.res.kind = "pass" /\ last'.verifyCalls = 0)
      ]_vars

\* C12, amended: after a request presenting key k has been verified paid,
\* every later request presenting k within the cache TTL is passed through
\* without an outbound verify call as long as k's entry is still in the
\* cache; once the entry has been evicted by a set at capacity, the next
\* request presenting k makes a verify call again.
C12_NoFurtherVerifyCallUntilEvicted ==
    [][ (RequestStep /\ PaidWithinTTL(AskedKey)) =>
           IF MapHas(paymentCache, AskedKey)
           THEN last'.res.kind = "pass" /\ last'.verifyCalls = 0
           ELSE last'.verifyCalls = 1
      ]_vars

\* A request has just been passed through on a cache entry exactly 600000 ms
\* old, without a verify call, with other keys cached after it.
C12_Witness ==
    /\ last.op = "request" /\ last.res.kind = "pass" /\ last.verifyCalls = 0
    /\ last.req.agentKey \in DOMAIN ledger
    /\ last.at - ledger[last.req.agentKey].at = 600000
    /\ Len(paymentCache) > 1

\* The step handled an agent request whose verify call answered paid=false.
UnpaidStep == RequestStep /\ last'.verifyCalls = 1 /\ last'.env.verify = "unpaid"

C14_CachedKeysWerePaid ==
    \A j \in 1..Len(paymentCache) :
        /\ paymentCache[j].value = true
        /\ paymentCache[j].key \in DOMAIN ledger
        /\ ledger[paymentCache[j].key].at = paymentCache[j].ts
        /\ ledger[paymentCache[j].key].valid

\* The cache is full of keys written at different times.
C14_Witness ==
    /\ Len(paymentCache) = maxSize
    /\ paymentCache[1].ts < paymentCache[Len(paymentCache)].ts

\* C15: while handling one agent request on a cache miss, the gate sends at
\* most one HTTP request to the verify service.
C15_OneVerifyServiceCall ==
    (last.op = "request" /\ config.adapter = "node") =>
        last.verifyCalls + last.merchantFetches <= 1

\* C17: a verify call ending in a non-2xx status, a network error or a body
\* that is not JSON is treated as unpaid: the request is answered 402.
C17_VerifyFailureIsUnpaid ==
    (/\ last.op = "request" /\ last.verifyCalls = 1
     /\ last.env.verify \in {"non2xx", "neterr", "badjson"})
    => last.res.status = 402

\* C18: a Node agent request without a key is answered 500 when the merchant
\* config is unavailable (verify not configured, or the config not cached
\* and its fetch failing), and otherwise 402 with a new key and its memo.
C18_NoKeyAnswer ==
    (last.op = "request" /\ config.adapter = "node" /\ Len(last.req.agentKey) = 0) =>
        IF \/ ~config.verifyConfigured
           \/ (~last.fetchedBefore /\ last.env.merchant = "fail")
        THEN last.res.status = 500
        ELSE /\ last.res.status = 402
             /\ last.res.yourKey = generateAgentKey(last.env.random, config.secret)
             /\ last.res.memo = derivePaymentMemo(last.res.yourKey, config.secret)

\* C20: a request whose X-Agent-Key is longer than 64 characters is handled
\* exactly as the same request carrying the first 64 characters of the key.
C20_LongKeyTruncated ==
    [][ (RequestStep /\ Len(AskedKey) > 64) =>
          LET Same(o) ==
                  /\ last'.res = o.res
                  /\ paymentCache' = o.cache
                  /\ merchantConfig' = o.mc
          IN  Same(gate([last'.req EXCEPT !.agentKey = slice(@, 0, MAX_KEY_LENGTH)],
                        config, last'.env, hits, paymentCache, merchantConfig, now))
      ]_vars

----------------------------------------------------------------------------
(* getMerchantConfig under concurrent requests (part_022 lines 204-210).   *)
(* The function suspends at `await fetchMerchantConfig(...)`: a caller     *)
(* that found merchantConfig null has sent GET /merchants/me and assigns   *)
(* merchantConfig when the answer arrives.  inflight maps each caller to   *)
(* "fetching", "config", "null" or "threw".                                *)

\* Number of requests that call getMerchantConfig in one behaviour.
MaxCallers == 4

Callers == 1..MaxCallers

InitMerchant ==
    /\ now = StartTime
    /\ paymentCache = <<>>
    /\ hits = EmptyMap
    /\ refHits = EmptyMap
    /\ windows = EmptyMap
    /\ merchantConfig = [fetched |-> FALSE]
    /\ config \in {NodeServing, NodeUnconfigured}
    /\ last = [op |-> "merchant", fetches |-> 0, failed |-> FALSE]
    /\ ledger = EmptyMap
    /\ inflight = EmptyMap
    /\ warnings = 0
    /\ bulk = NoBulk
    /\ hub = NoHub

\* Lines 206-208 up to the await: the caller returns the cached config,
\* returns null, or sends GET /merchants/me.
MerchantCall(r) ==
    /\ r \notin DOMAIN inflight
    /\ inflight' = Put(inflight, r,
                       IF merchantConfig.fetched THEN "config"
                       ELSE IF ~config.verifyConfigured THEN "null"
                       ELSE "fetching")
    /\ last' = IF ~merchantConfig.fetched /\ config.verifyConfigured
               THEN [last EXCEPT !.fetches = @ + 1]
               ELSE last
    /\ UNCHANGED <<now, paymentCache, hits, refHits, windows, merchantConfig, config, ledger, warnings, bulk, hub>>

\* The answer to a caller's GET arrives: on 200 the caller assigns
\* merchantConfig (line 208) and returns it, otherwise fetchMerchantConfig
\* throws (line 111).
MerchantAnswer(r, answer) ==
    /\ r \in DOMAIN inflight
    /\ inflight[r] = "fetching"
    /\ inflight' = Put(inflight, r, IF answer = "ok" THEN "config" ELSE "threw")
    /\ merchantConfig' = IF answer = "ok" THEN [fetched |-> TRUE] ELSE merchantConfig
    /\ last' = IF answer = "ok" THEN last ELSE [last EXCEPT !.failed = TRUE]
    /\ UNCHANGED <<now, paymentCache, hits, refHits, windows, config, ledger, warnings, bulk, hub>>

NextMerchant ==
    \/ \E r \in Callers : MerchantCall(r)
    \/ \E r \in Callers, answer \in {"ok", "fail"} : MerchantAnswer(r, answer)

SpecMerchant == InitMerchant /\ [][NextMerchant]_vars

\* C16: as long as no merchant-config fetch has failed, one gate instance
\* has issued at most one GET /merchants/me.
C16_SingleMerchantFetch ==
    (last.op = "merchant" /\ ~last.failed) => last.fetches <= 1

----------------------------------------------------------------------------
(* A change of CHALLENGE_SECRET.  The Node gate reads the secret once, in  *)
(* agentPaymentsGate(config): the change takes effect with a new gate      *)
(* instance, whose cache, limiter and merchant config start empty.  The    *)
(* edge gate reads the secret from the environment on every request, while *)
(* its payment cache and limiter live in the module and are kept.          *)

RotateDeployments == {NodeServing, EdgeServing}

\* Under which secret a credential was issued, seen from the gate's present
\* secret.
IssuedUnder(issuer) ==
    IF issuer = config.secret THEN "current"
    ELSE IF issuer = Secret THEN "previous"
    ELSE "foreign"

\* Requests presenting a key, a cookie or a nonce issued under issuer when
\* the first gate was started.
RotateInputs(issuer) ==
    {Input(Get(DATA_PATH, NoHeaders, generateAgentKey(R1, issuer), <<>>, Ip1),
           Label("other", "absent", IssuedUnder(issuer), "none", "none"),
           [verify |-> "paid", merchant |-> "ok", random |-> R1]),
     Input(Get(PAGE_PATH, ModeOnly, <<>>, mintCookie(StartTime, issuer), Ip1),
           Label("other", "present", "none", IssuedUnder(issuer), "none"), Quiet),
     Input(Post(ModeOnly, mintNonce(StartTime, issuer), PAGE_PATH, FP_OK, Ip1),
           Label("verify", "present", "none", "none", IssuedUnder(issuer)), Quiet)}

InitRotate ==
    /\ now = StartTime
    /\ paymentCache = <<>>
    /\ hits = EmptyMap
    /\ refHits = EmptyMap
    /\ windows = EmptyMap
    /\ merchantConfig = [fetched |-> FALSE]
    /\ config \in RotateDeployments
    /\ last = [op |-> "init"]
    /\ ledger = EmptyMap
    /\ inflight = EmptyMap
    /\ warnings = 0
    /\ bulk = NoBulk
    /\ hub = NoHub

RotateRequest(i) ==
    /\ IsVerifyPost(i.req) => CanPost(i.req.ip, MaxVerifyPosts + 1)
    /\ Handle(i)

\* CHALLENGE_SECRET is changed.
RotateSecret ==
    /\ config.secret = Secret
    /\ config' = [config EXCEPT !.secret = OtherSecret]
    /\ paymentCache' = IF config.adapter = "node" THEN <<>> ELSE paymentCache
    /\ hits' = IF config.adapter = "node" THEN EmptyMap ELSE hits
    /\ merchantConfig' = [fetched |-> FALSE]
    /\ last' = [op |-> "rotate"]
    /\ UNCHANGED <<now, refHits, windows, ledger, inflight, warnings, bulk, hub>>

\* Two and a half minutes pass.
RotateTick ==
    /\ now + 150000 <= StartTime + MaxGateTicks * 150000
    /\ now' = now + 150000
    /\ UNCHANGED <<paymentCache, hits, refHits, windows, merchantConfig, config, last, ledger,
                   inflight, warnings, bulk, hub>>

NextRotate ==
    \/ \E issuer \in {Secret, OtherSecret} :
          \E i \in RotateInputs(issuer) : RotateRequest(i)
    \/ RotateSecret
    \/ RotateTick

SpecRotate == InitRotate /\ [][NextRotate]_vars

\* C19: after CHALLENGE_SECRET has changed, a key issued under the previous
\* secret is answered 403, also while an unexpired payment-cache entry for
\* it exists; a cookie issued under it gets the challenge page, and a nonce
\* issued under it is refused with 403 and no cookie.
C19_PreviousSecretRejected ==
    last.op = "request" =>
        /\ last.label.key = "previous" =>
              /\ last.res.status = 403
              /\ last.verifyCalls = 0
        /\ last.label.cookie = "previous" =>
              /\ last.branch = "challenge"
              /\ last.res.kind = "html"
        /\ last.label.nonce = "previous" =>
              /\ last.res.status = 403
              /\ last.res.setCookie = <<>>

\* A key issued under the previous secret has just been answered 403 while
\* its payment-cache entry was still fresh.
C19_Witness ==
    /\ last.op = "request" /\ last.label.key = "previous"
    /\ last.cachedBefore /\ last.res.status = 403

----------------------------------------------------------------------------
(* The browser flow on its own: posts to /__challenge/verify with nonces,  *)
(* fingerprints and return_to values of every kind, and page requests with *)
(* cookies of every kind, while the clock advances.  ledger keeps, per     *)
(* nonce, the time the gate first minted a cookie for it.                  *)

VerifyDeployments == {NodeServing, EdgeServing}

SLASHES == <<"/", "/", "e", "v", "i", "l", ".", "e", "x", "a", "m", "p", "l", "e">>
FP_MIN == [i \in 1..10 |-> "a"]

\* return_to one character longer than MAX_RETURN_TO_LENGTH
LongReturnTo == <<"/">> \o [i \in 1..MAX_RETURN_TO_LENGTH |-> "a"]

\* Nonces beyond Nonces(secret, t): the nonce of the first challenge page the
\* gate served, one with half a signature, one signed under another secret
\* and a signed nonce whose timestamp is not a number.
MoreNonces(secret, t) ==
    {[nonce |-> mintNonce(StartTime, secret), kind |-> "first"],
     [nonce |-> slice(mintNonce(t, secret), 0, Len(toString(t)) + 33), kind |-> "shortsig"],
     [nonce |-> mintNonce(t, OtherSecret), kind |-> "foreign"],
     [nonce |-> <<"a", ".">> \o hmacSign(<<"n", "o", "n", "c", "e", ":", "a">>, secret),
      kind |-> "nan"]}

VerifyPost(nonce, kind, rt, fp) ==
    Input(Post(ModeOnly, nonce, rt, fp, Ip1),
          Label("verify", "present", "none", "none", kind), Quiet)

ChallengePosts(secret, t) ==
    { VerifyPost(n.nonce, n.kind, PAGE_PATH, FP_OK) :
        n \in Nonces(secret, t) \cup MoreNonces(secret, t) }
    \cup
    { VerifyPost(mintNonce(t, secret), "fresh", PAGE_PATH, fp) :
        fp \in {FP_MIN, FP_SHORT, <<>>} }
    \cup
    { VerifyPost(mintNonce(t, secret), "fresh", rt, FP_OK) :
        rt \in {<<>>, EVIL, SLASHES, LongReturnTo} }

\* Page requests of a browser: the cookies of Cookies(secret, t), a cookie
\* set a millisecond ago and one whose timestamp lies a second ahead.
CookieGets(secret, t) ==
    { Input(Get(PAGE_PATH, ModeOnly, <<>>, ck.cookie, Ip1),
            Label("other", "present", "none", ck.kind, "none"), Quiet) :
        ck \in Cookies(secret, t)
               \cup {[cookie |-> mintCookie(t - 1, secret), kind |-> "recent"],
                     [cookie |-> mintCookie(t + 1000, secret), kind |-> "future"]} }

\* One request of the browser flow handled from arrival to response.
VerifyHandle(i) ==
    LET Done(o) ==
            /\ hits' = o.hits
            /\ paymentCache' = o.cache
            /\ merchantConfig' = o.mc
            /\ windows' = IF IsVerifyPost(i.req)
                          THEN CountCall(windows, i.req.ip, now, o.res.status # 429)
                          ELSE windows
            /\ ledger' = IF o.res.status = 302 /\ i.req.nonce \notin DOMAIN ledger
                         THEN Put(ledger, i.req.nonce, now)
                         ELSE ledger
            /\ last' = [op |-> "request", req |-> i.req, label |-> i.label, env |-> i.env,
                        res |-> o.res, branch |-> o.branch, at |-> now,
                        replayed |-> IsVerifyPost(i.req) /\ i.req.nonce \in DOMAIN ledger]
            /\ UNCHANGED <<now, refHits, config, inflight, warnings, bulk, hub>>
    IN  Done(gate(i.req, config, i.env, hits, paymentCache, merchantConfig, now))

InitVerify ==
    /\ now = StartTime
    /\ paymentCache = <<>>
    /\ hits = EmptyMap
    /\ refHits = EmptyMap
    /\ windows = EmptyMap
    /\ merchantConfig = [fetched |-> FALSE]
    /\ config \in VerifyDeployments
    /\ last = [op |-> "init"]
    /\ ledger = EmptyMap
    /\ inflight = EmptyMap
    /\ warnings = 0
    /\ bulk = NoBulk
    /\ hub = NoHub

ChallengePost(i) ==
    /\ CanPost(i.req.ip, MaxVerifyPosts)
    /\ VerifyHandle(i)

CookieGet(i) == VerifyHandle(i)

NextVerify ==
    \/ \E i \in ChallengePosts(config.secret, now) : ChallengePost(i)
    \/ \E i \in CookieGets(config.secret, now) : CookieGet(i)
    \/ RotateTick

SpecVerify == InitVerify /\ [][NextVerify]_vars

\* The part of s before its first '.', and the part after it.
BeforeDot(s) == SubSeq(s, 1, (CHOOSE d \in 1..Len(s) : s[d] = "." /\ \A e \in 1..(d - 1) : s[e] # ".") - 1)
AfterDot(s) == SubSeq(s, Len(BeforeDot(s)) + 2, Len(s))
HasDot(s) == \E d \in 1..Len(s) : s[d] = "."

\* The nonce contains a '.', its timestamp is at most 300000 ms old at t and
\* its signature is HMAC(secret, "nonce:" + timestamp).
NonceHolds(nonce, secret, t) ==
    /\ HasDot(nonce)
    /\ ~parseInt(BeforeDot(nonce)).isNaN
    /\ t - parseInt(BeforeDot(nonce)).n <= 300000
    /\ AfterDot(nonce) = hmacSign(<<"n", "o", "n", "c", "e", ":">> \o BeforeDot(nonce), secret)

\* C21: a 302 with Set-Cookie is issued only by the challenge-verify handler
\* and only when the nonce contains a '.', its timestamp is at most 300000 ms
\* old, its signature is the HMAC of "nonce:" + timestamp and the fingerprint
\* has at least 10 characters; in every other case no cookie is minted.
C21_CookieOnlyForValidChallenge ==
    (last.op = "request" /\ (last.res.status = 302 \/ last.res.setCookie # <<>>)) =>
        /\ IsVerifyPost(last.req)
        /\ last.res.status = 302
        /\ last.res.setCookie # <<>>
        /\ NonceHolds(last.req.nonce, config.secret, last.at)
        /\ Len(last.req.fp) >= 10

\* A cookie has just been minted for a nonce exactly 300000 ms old.
C21_Witness ==
    /\ last.op = "request" /\ last.res.status = 302 /\ last.res.setCookie # <<>>
    /\ last.at - parseInt(BeforeDot(last.req.nonce)).n = 300000

\* C22: a nonce is single-use: a POST presenting a nonce for which a cookie
\* was minted before does not mint another cookie.
C22_NonceSingleUse ==
    (last.op = "request" /\ last.replayed) =>
        (last.res.setCookie = <<>> /\ last.res.status # 302)

\* C23 as stated: on a successful verification the Location header is '/'
\* if return_to does not start with '/', and return_to otherwise.
C23_LocationIsReturnTo ==
    (last.op = "request" /\ last.res.status = 302) =>
        last.res.location =
            IF Len(last.req.return_to) > 0 /\ last.req.return_to[1] = "/"
            THEN last.req.return_to
            ELSE <<"/">>

\* C23, amended: on a successful verification the Location header is '/' if
\* return_to does not start with '/', and otherwise the first 2048 characters
\* of return_to.
C23_LocationIsTruncatedReturnTo ==
    (last.op = "request" /\ last.res.status = 302) =>
        last.res.location =
            IF Len(last.req.return_to) > 0 /\ last.req.return_to[1] = "/"
            THEN SubSeq(last.req.return_to, 1, Min(Len(last.req.return_to), 2048))
            ELSE <<"/">>

\* A verification with return_to = https://evil has just been redirected
\* to '/'.
C23_Witness ==
    /\ last.op = "request" /\ last.res.status = 302
    /\ last.req.return_to = EVIL
    /\ last.res.location = <<"/">>

\* A browser resolves the Location value against the page's origin: a value
\* that starts with '//' or '/\' names another host.
StaysOnOrigin(location) ==
    /\ Len(location) >= 1
    /\ location[1] = "/"
    /\ Len(location) >= 2 => location[2] \notin {"/", "\\"}

\* C24: whatever return_to is submitted, the 302 keeps the browser on the
\* gate's origin.
C24_NoOpenRedirect ==
    (last.op = "request" /\ last.res.status = 302) => StaysOnOrigin(last.res.location)

\* C25: a cookie is accepted only if its signature matches and its age
\* now - T is more than 0 and at most 86400000 ms.
C25_CookieAgeWindow ==
    (last.op = "request" /\ last.branch = "cookie") =>
        /\ HasDot(last.req.cookie)
        /\ AfterDot(last.req.cookie) = hmacSign(BeforeDot(last.req.cookie), config.secret)
        /\ last.at - parseInt(BeforeDot(last.req.cookie)).n > 0
        /\ last.at - parseInt(BeforeDot(last.req.cookie)).n <= 86400000

----------------------------------------------------------------------------
(* SpecKeys: the validators as functions of their input.  The initial      *)
(* states draw a token (an agent key, a cookie or a nonce: as issued, with *)
(* one character replaced, or with a signature part of another length) and *)
(* a gate holding one of three secrets; the one step of a behaviour is the *)
(* gate validating the token.                                              *)

ThirdSecret == <<"k", "3", "y">>
KeySecrets == {Secret, OtherSecret, ThirdSecret}

KeyDeployments ==
    { GateConfig(adapter, S, TRUE, TRUE, IF adapter = "edge" THEN WALLET ELSE <<>>, <<>>) :
        adapter \in {"node", "edge"}, S \in KeySecrets }

\* The characters put in the place of one character of a token.
TamperChars == {"0", "f", "_", "."}

ReplaceAt(s, pos, ch) == [s EXCEPT ![pos] = ch]

\* What the gate holding secret hands out at time t.
Minted(kind, secret, t) ==
    CASE kind = "key"    -> generateAgentKey(R1, secret)
      [] kind = "cookie" -> mintCookie(t, secret)
      [] kind = "nonce"  -> mintNonce(t, secret)

KeyInput(kind, how, token, issuer) ==
    [op |-> "input", kind |-> kind, how |-> how, token |-> token, issuer |-> issuer,
     threw |-> FALSE, ok |-> FALSE]

\* Keys issued under each secret.
IssuedKeys ==
    { KeyInput("key", "issued", generateAgentKey(r, S), S) :
        r \in {R1, R2, Rand(1)}, S \in KeySecrets }

\* A token the gate issued with one character replaced by another one.
TamperedTokens(secret, t) ==
    LET Changed(kind, token) ==
            { KeyInput(kind, "tampered", ReplaceAt(token, pos, ch), secret) :
                pos \in 1..Len(token),
                ch \in TamperChars }
    IN  { x \in UNION { Changed(kind, Minted(kind, secret, t)) :
                          kind \in {"key", "cookie", "nonce"} } :
            x.token # Minted(x.kind, secret, t) }

\* A token the gate issued with the last character of its signature part
\* cut off, with one more character, and with no signature part at all.
ResizedTokens(secret, t) ==
    LET SigLen(kind) == IF kind = "key" THEN 16 ELSE 64
        Sized(kind, token) ==
            { KeyInput(kind, "resized", slice(token, 0, Len(token) - 1), secret),
              KeyInput(kind, "resized", token \o <<"0">>, secret),
              KeyInput(kind, "resized", slice(token, 0, Len(token) - SigLen(kind)), secret) }
    IN  UNION { Sized(kind, Minted(kind, secret, t)) : kind \in {"key", "cookie", "nonce"} }

KeyInputs(secret, t) ==
    IssuedKeys \cup TamperedTokens(secret, t) \cup ResizedTokens(secret, t)

InitKeys ==
    /\ now = StartTime
    /\ paymentCache = <<>>
    /\ hits = EmptyMap
    /\ refHits = EmptyMap
    /\ windows = EmptyMap
    /\ merchantConfig = [fetched |-> FALSE]
    /\ config \in KeyDeployments
    /\ last \in KeyInputs(config.secret, now)
    /\ ledger = EmptyMap
    /\ inflight = EmptyMap
    /\ warnings = 0
    /\ bulk = NoBulk
    /\ hub = NoHub

\* isValidAgentKey(key, secret) of the adapter in use
ValidateKey ==
    /\ last.op = "input" /\ last.kind = "key"
    /\ LET Done(r) == last' = [last EXCEPT !.op = "validated", !.threw = r.threw, !.ok = r.ok]
       IN  Done(IF config.adapter = "node"
                THEN isValidAgentKey(last.token, config.secret)
                ELSE edge_isValidAgentKey(last.token, config.secret))
    /\ UNCHANGED <<now, paymentCache, hits, refHits, windows, merchantConfig, config,
                   ledger, inflight, warnings, bulk, hub>>

\* isValidCookie(req, secret) on a request carrying the token as its cookie
ValidateCookie ==
    /\ last.op = "input" /\ last.kind = "cookie"
    /\ last' = [last EXCEPT !.op = "validated", !.threw = FALSE,
                            !.ok = isValidCookie(last.token, config.secret, now)]
    /\ UNCHANGED <<now, paymentCache, hits, refHits, windows, merchantConfig, config,
                   ledger, inflight, warnings, bulk, hub>>

\* The verify handler on a POST carrying the token as its nonce: the nonce
\* is valid when the handler answers 302.
ValidateNonce ==
    /\ last.op = "input" /\ last.kind = "nonce"
    /\ LET Done(o) ==
            /\ hits' = o.hits
            /\ paymentCache' = o.cache
            /\ merchantConfig' = o.mc
            /\ windows' = CountCall(windows, Ip1, now, o.res.status # 429)
            /\ last' = [last EXCEPT !.op = "validated", !.threw = (o.res.kind = "throw"),
                                    !.ok = (o.res.status = 302)]
       IN  Done(gate(Post(ModeOnly, last.token, PAGE_PATH, FP_OK, Ip1), config, Quiet,
                     hits, paymentCache, merchantConfig, now))
    /\ UNCHANGED <<now, refHits, config, ledger, inflight, warnings, bulk, hub>>

NextKeys == ValidateKey \/ ValidateCookie \/ ValidateNonce

SpecKeys == InitKeys /\ [][NextKeys]_vars

\* C26: a key generated under a secret S is accepted by a gate holding S
\* and rejected by a gate holding any other secret.
C26_KeyValidOnlyUnderItsSecret ==
    (last.op = "validated" /\ last.kind = "key" /\ last.how = "issued") =>
        /\ ~last.threw
        /\ last.ok <=> (last.issuer = config.secret)

\* A key issued under one secret has been rejected by a gate holding another.
C26_Witness ==
    /\ last.op = "validated" /\ last.kind = "key" /\ last.how = "issued"
    /\ last.issuer # config.secret
    /\ ~last.ok /\ ~last.threw

\* C27: changing one character of a valid agent key, cookie or nonce, at
\* any position, makes validation return false.
C27_TamperedTokenReturnsFalse ==
    (last.op = "validated" /\ last.how = "tampered") => (~last.ok /\ ~last.threw)

\* C28: validation of a key, cookie or nonce whose signature part is not as
\* long as the expected signature returns false and raises no error.
C28_LengthMismatchFailsClosed ==
    (last.op = "validated" /\ last.how = "resized") => (~last.ok /\ ~last.threw)

----------------------------------------------------------------------------
(* SpecDefault: gates left with the default secret.  warnings counts the   *)
(* 'Using default CHALLENGE_SECRET' events written by gateLog since the    *)
(* process started.  The Node gate of part_022 lines 189-327 has no debug *)
(* option; its deployment carries debug = FALSE.                           *)

MaxWarnings == 3

NodeDefault      == GateConfig("node", <<>>, TRUE, FALSE, <<>>, <<>>)
EdgeDefaultDebug == GateConfig("edge", <<>>, FALSE, TRUE, WALLET, <<HEALTH>>)

DefaultDeployments == {NodeDefault, EdgeDefaultProd, EdgeDefaultDebug}

\* agentPaymentsGate(config): the warnings written while the gate is built.
agentPaymentsGate_gateLog(cfg) ==
    IF cfg.adapter = "node" /\ cfg.secret = DEFAULT_SECRET THEN 1 ELSE 0

\* edgeGate(request, env, context): the warnings written while one request
\* is handled.
edgeGate_gateLog(cfg) ==
    IF cfg.adapter = "edge" /\ cfg.secret = DEFAULT_SECRET /\ cfg.debug THEN 1 ELSE 0

InitDefault ==
    /\ now = StartTime
    /\ paymentCache = <<>>
    /\ hits = EmptyMap
    /\ refHits = EmptyMap
    /\ windows = EmptyMap
    /\ merchantConfig = [fetched |-> FALSE]
    /\ config \in DefaultDeployments
    /\ last = [op |-> "init"]
    /\ ledger = EmptyMap
    /\ inflight = EmptyMap
    /\ warnings = agentPaymentsGate_gateLog(config)
    /\ bulk = NoBulk
    /\ hub = NoHub

\* One request handled from arrival to response by a gate holding the
\* default secret.
DefaultRequest(i) ==
    /\ IsVerifyPost(i.req) => CanPost(i.req.ip, MaxVerifyPosts)
    /\ warnings + edgeGate_gateLog(config) <= MaxWarnings
    /\ LET Done(o) ==
            /\ hits' = o.hits
            /\ paymentCache' = o.cache
            /\ merchantConfig' = o.mc
            /\ windows' = IF IsVerifyPost(i.req)
                          THEN CountCall(windows, i.req.ip, now, o.res.status # 429)
                          ELSE windows
            /\ warnings' = warnings + edgeGate_gateLog(config)
            /\ last' = [op |-> "request", req |-> i.req, label |-> i.label, env |-> i.env,
                        res |-> o.res, branch |-> o.branch, at |-> now]
            /\ UNCHANGED <<now, refHits, config, ledger, inflight, bulk, hub>>
       IN  Done(gate(i.req, config, i.env, hits, paymentCache, merchantConfig, now))

\* Requests to a public path, from agents with and without a key, from
\* browsers with and without a cookie, and posts to /__challenge/verify.
DefaultInputs(cfg, t) ==
    PublicInputs({Ip1}) \cup AgentOnlyInputs(cfg.secret) \cup CookieGets(cfg.secret, t)
    \cup { VerifyPost(n.nonce, n.kind, PAGE_PATH, FP_OK) : n \in Nonces(cfg.secret, t) }

NextDefault ==
    \/ \E i \in DefaultInputs(config, now) : DefaultRequest(i)
    \/ RotateTick

SpecDefault == InitDefault /\ [][NextDefault]_vars

\* C29: a gate holding the default secret without debug mode answers every
\* request with 500: none is passed through, challenged or issued a key.
C29_DefaultSecretRefused ==
    (last.op = "request" /\ config.secret = DEFAULT_SECRET /\ ~config.debug) =>
        /\ last.res.status = 500
        /\ last.res.kind = "json"
        /\ last.res.yourKey = <<>>
        /\ last.res.nonce = <<>>

\* C30: a gate holding the default secret in debug mode has written the
\* default-secret warning exactly once, however many requests it handled.
C30_WarnedOnce ==
    (last.op = "request" /\ config.secret = DEFAULT_SECRET /\ config.debug) =>
        warnings = 1

----------------------------------------------------------------------------
(* SpecBrowser: one browser and one gate.  The browser keeps what the gate *)
(* sent it: ledger["nonce"] is the nonce of the last challenge page with   *)
(* the time the page was served, ledger["cookie"] the cookie of a 302 with *)
(* the time it was set.  The clock advances by 150 seconds, and once by a  *)
(* day less 150 seconds.                                                   *)

BrowserDeployments == {NodeServing, EdgeServing}

DayTick == COOKIE_MAX_AGE * 1000 - 150000

Held(what) == IF what \in DOMAIN ledger THEN ledger[what].value ELSE <<>>

InitBrowser ==
    /\ now = StartTime
    /\ paymentCache = <<>>
    /\ hits = EmptyMap
    /\ refHits = EmptyMap
    /\ windows = EmptyMap
    /\ merchantConfig = [fetched |-> FALSE]
    /\ config \in BrowserDeployments
    /\ last = [op |-> "init"]
    /\ ledger = EmptyMap
    /\ inflight = EmptyMap
    /\ warnings = 0
    /\ bulk = NoBulk
    /\ hub = NoHub

\* One request of the browser handled from arrival to response; the browser
\* keeps the nonce of a challenge page and, when keep says so, the cookie of
\* a 302.
BrowserHandle(op, req, keep) ==
    LET Noted(o) ==
            IF o.res.nonce # <<>>
            THEN Put(ledger, "nonce", [value |-> o.res.nonce, at |-> now])
            ELSE IF o.res.setCookie # <<>> /\ keep
            THEN Put(ledger, "cookie", [value |-> o.res.setCookie, at |-> now])
            ELSE ledger
        Done(o) ==
            /\ hits' = o.hits
            /\ paymentCache' = o.cache
            /\ merchantConfig' = o.mc
            /\ windows' = IF IsVerifyPost(req)
                          THEN CountCall(windows, req.ip, now, o.res.status # 429)
                          ELSE windows
            /\ ledger' = Noted(o)
            /\ last' = [op |-> op, req |-> req, res |-> o.res, branch |-> o.branch, at |-> now,
                        nonceAt |-> IF "nonce" \in DOMAIN ledger THEN ledger["nonce"].at ELSE 0,
                        cookieAt |-> IF "cookie" \in DOMAIN ledger THEN ledger["cookie"].at ELSE 0,
                        limitedBefore |-> /\ req.ip \in DOMAIN windows
                                          /\ now - windows[req.ip].start <= 60000
                                          /\ windows[req.ip].calls >= RATE_LIMIT_MAX]
            /\ UNCHANGED <<now, refHits, config, inflight, warnings, bulk, hub>>
    IN  Done(gate(req, config, Quiet, hits, paymentCache, merchantConfig, now))

\* The browser asks for a page, sending the cookie it holds.
BrowserGet(path, h) ==
    BrowserHandle("get", Get(path, h, <<>>, Held("cookie"), Ip1), TRUE)

\* The challenge page's script posts the page's nonce with a fingerprint.
BrowserSolve(fp, keep) ==
    /\ "nonce" \in DOMAIN ledger
    /\ CanPost(Ip1, MaxVerifyPosts)
    /\ BrowserHandle("solve", Post(ModeOnly, Held("nonce"), PAGE_PATH, fp, Ip1), keep)

\* Time passes: 150 seconds at most MaxGateTicks times in a row, a day less
\* 150 seconds once.
BrowserTick(d) ==
    /\ LET elapsed == now - StartTime
           small   == IF elapsed >= DayTick THEN elapsed - DayTick ELSE elapsed
       IN  IF d = DayTick THEN elapsed < DayTick
           ELSE small + d <= MaxGateTicks * 150000
    /\ now' = now + d
    /\ UNCHANGED <<paymentCache, hits, refHits, windows, merchantConfig, config, last, ledger,
                   inflight, warnings, bulk, hub>>

NextBrowser ==
    \/ \E path \in {PAGE_PATH, DATA_PATH}, h \in {ModeOnly, DestOnly, BothHeaders} :
          BrowserGet(path, h)
    \/ \E fp \in {FP_OK, FP_MIN, FP_SHORT}, keep \in BOOLEAN : BrowserSolve(fp, keep)
    \/ \E d \in {150000, DayTick} : BrowserTick(d)

SpecBrowser == InitBrowser /\ [][NextBrowser]_vars

C32_AlwaysAnswered ==
    last.op = "request" =>
        /\ last.res.kind \in {"pass", "json", "redirect", "html"}
        /\ last.res.status >= 400 => last.res.kind = "json"

\* C37: a set on a key that is already stored removes the entry of no other
\* key, the cache being at capacity or not.
C37_ResetKeepsOtherKeys ==
    [][ (last'.op = "set" /\ MapHas(paymentCache, last'.key)) =>
          \A i \in 1..Len(paymentCache) :
             paymentCache[i].key # last'.key => MapHas(paymentCache', paymentCache[i].key)
      ]_vars

----------------------------------------------------------------------------
(* SpecRetry: one call of withRpcRetry (src/verify_service/chain.js lines   *)
(* 34-55).  inflight is the call: the loop counter i, where it stands (at  *)
(* 'await fn()', at 'await sleep(waitMs)', returned or thrown), how often  *)
(* fn was invoked, the sleeps so far and the errors fn threw.  fn answers  *)
(* with a value or throws an error carrying one of ErrorMessages.          *)

RPC_RETRIES == 3

RETRYABLE_MESSAGES ==
    << <<"4", "2", "9">>,
       <<"T", "o", "o", " ", "M", "a", "n", "y", " ", "R", "e", "q", "u", "e", "s", "t", "s">>,
       <<"f", "e", "t", "c", "h", " ", "f", "a", "i", "l", "e", "d">>,
       <<"E", "T", "I", "M", "E", "D", "O", "U", "T">>,
       <<"E", "C", "O", "N", "N", "R", "E", "S", "E", "T">> >>

\* String.prototype.includes
includes(str, part) ==
    \E k \in 0..(Len(str) - Len(part)) : SubSeq(str, k + 1, k + Len(part)) = part

\* isRetryableError retrying after every error.
isRetryableError_Always(msg) == TRUE

\* isRetryableError(err); msg is String(err?.message || err || '')
isRetryableError(msg) ==
    \E k \in 1..Len(RETRYABLE_MESSAGES) : includes(msg, RETRYABLE_MESSAGES[k])

\* Messages of the errors fn throws: four that are retryable, one that
\* differs from a retryable one in case only, one unrelated, and none.
ErrorMessages ==
    { <<"H", "T", "T", "P", " ", "4", "2", "9">>,
      <<"f", "e", "t", "c", "h", " ", "f", "a", "i", "l", "e", "d">>,
      <<"r", "e", "a", "d", " ", "E", "C", "O", "N", "N", "R", "E", "S", "E", "T">>,
      <<"E", "T", "I", "M", "E", "D", "O", "U", "T">>,
      <<"t", "o", "o", " ", "m", "a", "n", "y", " ", "r", "e", "q", "u", "e", "s", "t", "s">>,
      <<"I", "n", "v", "a", "l", "i", "d", " ", "p", "a", "r", "a", "m">>,
      <<>> }

Pow2(n) == IF n = 0 THEN 1 ELSE IF n = 1 THEN 2 ELSE 4

InitRetry ==
    /\ now = StartTime
    /\ paymentCache = <<>>
    /\ hits = EmptyMap
    /\ refHits = EmptyMap
    /\ windows = EmptyMap
    /\ merchantConfig = [fetched |-> FALSE]
    /\ config = NoConfig
    /\ last = [op |-> "init"]
    /\ ledger = EmptyMap
    /\ inflight = [i |-> 0, pc |-> "fn", calls |-> 0, sleeps |-> <<>>, errors |-> <<>>]
    /\ warnings = 0
    /\ bulk = NoBulk
    /\ hub = NoHub

\* 'return await fn()' with fn resolving
RpcReturns ==
    /\ inflight.pc = "fn"
    /\ inflight' = [inflight EXCEPT !.pc = "returned", !.calls = @ + 1]
    /\ last' = [op |-> "return"]
    /\ UNCHANGED <<now, paymentCache, hits, refHits, windows, merchantConfig, config, ledger,
                   warnings, bulk, hub>>

\* 'await fn()' with fn throwing: the catch block up to 'throw err' or up to
\* 'await sleep(waitMs)'.
RpcThrows(msg) ==
    /\ inflight.pc = "fn"
    /\ inflight' = [inflight EXCEPT
                      !.calls = @ + 1,
                      !.errors = Append(@, msg),
                      !.pc = IF ~isRetryableError(msg) \/ inflight.i = RPC_RETRIES - 1
                             THEN "thrown" ELSE "sleep"]
    /\ last' = [op |-> "catch", msg |-> msg]
    /\ UNCHANGED <<now, paymentCache, hits, refHits, windows, merchantConfig, config, ledger,
                   warnings, bulk, hub>>

\* 'await sleep(waitMs)' is over: the loop goes on with i + 1.
RpcWakes ==
    /\ inflight.pc = "sleep"
    /\ now' = now + 250 * Pow2(inflight.i)
    /\ inflight' = [inflight EXCEPT !.pc = IF inflight.i + 1 < RPC_RETRIES THEN "fn" ELSE "thrown",
                                    !.i = @ + 1,
                                    !.sleeps = Append(@, 250 * Pow2(inflight.i))]
    /\ last' = [op |-> "wake"]
    /\ UNCHANGED <<paymentCache, hits, refHits, windows, merchantConfig, config, ledger,
                   warnings, bulk, hub>>

NextRetry ==
    \/ RpcReturns
    \/ \E msg \in ErrorMessages : RpcThrows(msg)
    \/ RpcWakes

SpecRetry == InitRetry /\ [][NextRetry]_vars

\* Every step that can be taken is taken in the end: fn answers, sleep ends.
FairSpecRetry == SpecRetry /\ WF_vars(NextRetry)

\* The k-th error fn threw carries one of the retryable messages.
Retried(k) ==
    \E r \in 1..Len(RETRYABLE_MESSAGES) : includes(inflight.errors[k], RETRYABLE_MESSAGES[r])

\* C40: withRpcRetry invokes fn at most 3 times; it sleeps only after a
\* retryable error, 250 ms and then 500 ms; it rethrows at once on an error
\* that is not retryable and on the third failure; and it terminates.
C40_RetryAtMostThrice ==
    /\ [](/\ inflight.calls <= 3
          /\ inflight.sleeps = SubSeq(<<250, 500>>, 1, Len(inflight.sleeps))
          /\ \A k \in 1..Len(inflight.sleeps) : Retried(k)
          /\ inflight.pc = "sleep" =>
                (Len(inflight.errors) = Len(inflight.sleeps) + 1
                   /\ Retried(Len(inflight.errors)) /\ inflight.calls < 3)
          /\ inflight.pc = "thrown" =>
                (/\ Len(inflight.errors) = inflight.calls
                 /\ Len(inflight.sleeps) = inflight.calls - 1
                 /\ (~Retried(inflight.calls) \/ inflight.calls = 3))
          /\ inflight.pc = "fn" => inflight.calls = Len(inflight.sleeps))
    /\ <>(inflight.pc \in {"returned", "thrown"})

\* The third failure has just been rethrown after sleeps of 250 and 500 ms.
C40_Witness ==
    /\ inflight.pc = "thrown" /\ inflight.calls = 3
    /\ inflight.sleeps = <<250, 500>>
    /\ Retried(3)

----------------------------------------------------------------------------
(* SpecBulk: one BulkVerifier of the verify service                        *)
(* (src/verify_service/chain.js lines 257-337).  bulk holds the object    *)
(* (pending, timer, txCache), the timers that setTimeout has scheduled and *)
(* that have neither fired nor been cleared, the flushes waiting for their *)
(* chain fetch, and every promise verify has returned.  A promise is named *)
(* by its place in calls; a flush is named by the first promise of its     *)
(* batch, and an answer from the transaction cache by -1.  A memo is a     *)
(* number; the chain holds one USDC transfer for each memo of PaidMemos.   *)

MaxBulkCalls == 3

COALESCE_WINDOW_MS == 50
COALESCE_MAX_PENDING == 20
TX_CACHE_TTL_MS == 2000

PaidMemos == {1}
AskedMemos == {1, 3}

\* The transfer on the chain that carries memo m.
Tx(m) == [signature |-> m, memo |-> m, amount |-> 1]
Chain == { Tx(m) : m \in PaidMemos }

SeqToSet(q) == { q[k] : k \in 1..Len(q) }

\* fetchRecentTransactions(rpcUrl, walletAddress, memos): the transactions
\* whose memo matches one of memos; all of them when memos is empty.
fetchRecentTransactions(memos) ==
    IF Len(memos) = 0 THEN Chain
    ELSE { tx \in Chain : tx.memo \in SeqToSet(memos) }

\* matchMemosAgainstTransactions that takes any payment for a payment of memo.
matchMemosAgainstTransactions_AnyMemo(memo, transactions) ==
    IF transactions # {}
    THEN LET tx == CHOOSE x \in transactions : TRUE
         IN  [paid |-> TRUE, txSignature |-> tx.signature, amount |-> tx.amount]
    ELSE [paid |-> FALSE, txSignature |-> 0, amount |-> 0]

\* matchMemosAgainstTransactions([memo], transactions, usdcMint).get(memo).
\* Memos are numbers here, none of which contains another, so that
\* m.includes(memo) is equality.
matchMemosAgainstTransactions(memo, transactions) ==
    IF \E tx \in transactions : tx.memo = memo
    THEN LET tx == CHOOSE x \in transactions : x.memo = memo
         IN  [paid |-> TRUE, txSignature |-> tx.signature, amount |-> tx.amount]
    ELSE [paid |-> FALSE, txSignature |-> 0, amount |-> 0]

NoResult == [paid |-> FALSE, txSignature |-> 0, amount |-> 0]

\* new BulkVerifier(rpcUrl, walletAddress)
NewBulkVerifier ==
    [on |-> TRUE,
     pending |-> <<>>,            \* this._pending, in insertion order
     timer |-> 0,                 \* this._timer: when that timer is due, 0 for null
     txCache |-> [set |-> FALSE, transactions |-> {}, fetchedAt |-> 0],
     timers |-> EmptyBag,         \* scheduled timers: a bag of the times they are due
     flights |-> {},              \* the batches of the flushes awaiting their fetch
     emptyFlushed |-> FALSE,      \* _flush() has run on an empty batch
     calls |-> <<>>,              \* the promises returned by verify
     turns |-> 0]                 \* callers' turns so far

\* _flush() up to its await: the batch is taken and the fetch is issued.
BulkVerifier_flush(b) ==
    [b EXCEPT !.timer = 0,
              !.pending = <<>>,
              !.flights = @ \cup {b.pending},
              !.emptyFlushed = @ \/ Len(b.pending) = 0]

\* clearTimeout(this._timer)
clearTimeout(b) ==
    IF b.timer = 0 THEN b ELSE [b EXCEPT !.timers = @ (-) SetToBag({b.timer})]

\* The position of memo in pending, 0 when it is not there.
PendingIndex(pending, memo) ==
    IF \E k \in 1..Len(pending) : pending[k].memo = memo
    THEN CHOOSE k \in 1..Len(pending) : pending[k].memo = memo
    ELSE 0

\* verify(memo) never starting the coalescing timer.
BulkVerifier_verify_NoTimer(b, memo, t) ==
    LET id == Len(b.calls) + 1
        open == Len(b.pending) > 0 /\ Len(b.pending) < COALESCE_MAX_PENDING
                /\ t - b.pending[1].at < COALESCE_WINDOW_MS
        head == IF Len(b.pending) > 0 THEN b.pending[1].waiters[1] ELSE 0
        Call(state, result, by) ==
            [memo |-> memo, state |-> state, result |-> result, by |-> by,
             open |-> open, head |-> head]
        Capped(b2) ==
            IF Len(b2.pending) >= COALESCE_MAX_PENDING
            THEN BulkVerifier_flush(clearTimeout(b2))
            ELSE b2
        Pushed(k) ==
            [b EXCEPT !.calls = Append(@, Call("pending", NoResult, 0)),
                      !.pending = IF k = 0
                                  THEN Append(@, [memo |-> memo, waiters |-> <<id>>, at |-> t])
                                  ELSE [@ EXCEPT ![k].waiters = Append(@, id)]]
    IN  IF b.txCache.set /\ t - b.txCache.fetchedAt < TX_CACHE_TTL_MS
        THEN [b EXCEPT !.calls =
                 Append(@, Call("resolved",
                                matchMemosAgainstTransactions(memo, b.txCache.transactions),
                                -1))]
        ELSE Capped(Pushed(PendingIndex(b.pending, memo)))

\* verify(memo) called at time t: chain.js lines 286-312.
BulkVerifier_verify(b, memo, t) ==
    LET id == Len(b.calls) + 1
        open == Len(b.pending) > 0 /\ Len(b.pending) < COALESCE_MAX_PENDING
                /\ t - b.pending[1].at < COALESCE_WINDOW_MS
        head == IF Len(b.pending) > 0 THEN b.pending[1].waiters[1] ELSE 0
        Call(state, result, by) ==
            [memo |-> memo, state |-> state, result |-> result, by |-> by,
             open |-> open, head |-> head]
        Capped(b2) ==
            IF Len(b2.pending) >= COALESCE_MAX_PENDING
            THEN BulkVerifier_flush(clearTimeout(b2))
            ELSE b2
        Timed(b1) ==
            IF Len(b1.pending) = 1
            THEN Capped([b1 EXCEPT
                           !.timer = t + COALESCE_WINDOW_MS,
                           !.timers = @ (+) SetToBag({t + COALESCE_WINDOW_MS})])
            ELSE Capped(b1)
        Pushed(k) ==
            [b EXCEPT !.calls = Append(@, Call("pending", NoResult, 0)),
                      !.pending = IF k = 0
                                  THEN Append(@, [memo |-> memo, waiters |-> <<id>>, at |-> t])
                                  ELSE [@ EXCEPT ![k].waiters = Append(@, id)]]
    IN  IF b.txCache.set /\ t - b.txCache.fetchedAt < TX_CACHE_TTL_MS
        THEN [b EXCEPT !.calls =
                 Append(@, Call("resolved",
                                matchMemosAgainstTransactions(memo, b.txCache.transactions),
                                -1))]
        ELSE Timed(Pushed(PendingIndex(b.pending, memo)))

\* verify called for the memos m, m + 1, ..., n one after the other in one
\* turn of the event loop.
RECURSIVE VerifyEach(_, _, _, _)
VerifyEach(b, m, n, t) ==
    IF m > n THEN b ELSE VerifyEach(BulkVerifier_verify(b, m, t), m + 1, n, t)

\* The rest of _flush() once the fetch of flight f has returned (lines
\* 325-331) or thrown (lines 332-336).
Settled(b, f, ok, t) ==
    LET transactions == fetchRecentTransactions([k \in 1..Len(f) |-> f[k].memo])
        InBatch(c) == \E k \in 1..Len(f) : c \in SeqToSet(f[k].waiters)
    IN  [b EXCEPT
           !.flights = @ \ {f},
           !.txCache = IF ok THEN [set |-> TRUE, transactions |-> transactions, fetchedAt |-> t]
                       ELSE @,
           !.calls = [c \in 1..Len(b.calls) |->
                        IF ~InBatch(c) THEN b.calls[c]
                        ELSE IF ok
                        THEN [b.calls[c] EXCEPT
                                !.state = "resolved",
                                !.result = matchMemosAgainstTransactions(b.calls[c].memo,
                                                                         transactions),
                                !.by = f[1].waiters[1]]
                        ELSE [b.calls[c] EXCEPT !.state = "rejected", !.by = f[1].waiters[1]]]]

InitBulk ==
    /\ now = StartTime
    /\ paymentCache = <<>>
    /\ hits = EmptyMap
    /\ refHits = EmptyMap
    /\ windows = EmptyMap
    /\ merchantConfig = [fetched |-> FALSE]
    /\ config = NoConfig
    /\ last = [op |-> "init"]
    /\ ledger = EmptyMap
    /\ inflight = EmptyMap
    /\ warnings = 0
    /\ bulk = NewBulkVerifier
    /\ hub = NoHub

BulkFrame ==
    UNCHANGED <<paymentCache, hits, refHits, windows, merchantConfig, config, last, ledger,
                inflight, warnings, hub>>

\* One verify(memo) call.
BulkVerify(memo) ==
    /\ bulk.turns < MaxBulkCalls
    /\ bulk' = [BulkVerifier_verify(bulk, memo, now) EXCEPT !.turns = @ + 1]
    /\ UNCHANGED now
    /\ BulkFrame

\* COALESCE_MAX_PENDING verify calls for as many memos in one turn.
BulkBurst ==
    /\ bulk.turns < MaxBulkCalls
    /\ bulk' = [VerifyEach(bulk, 1, COALESCE_MAX_PENDING, now) EXCEPT !.turns = @ + 1]
    /\ UNCHANGED now
    /\ BulkFrame

\* A scheduled timer is due: its callback runs _flush().
TimerFires ==
    /\ \E due \in BagToSet(bulk.timers) :
          /\ due <= now
          /\ bulk' = BulkVerifier_flush([bulk EXCEPT !.timers = @ (-) SetToBag({due})])
    /\ UNCHANGED now
    /\ BulkFrame

\* The chain fetch of a flush returns, or throws.
FetchSettles ==
    /\ \E f \in bulk.flights, ok \in BOOLEAN :
          /\ bulk' = Settled(bulk, f, ok, now)
    /\ UNCHANGED now
    /\ BulkFrame

\* Time passes: up to the moment the next timer is due while one is
\* scheduled, and the cache TTL when none is scheduled and the cache is fresh.
BulkTick ==
    /\ IF bulk.timers # EmptyBag
       THEN /\ \A due \in BagToSet(bulk.timers) : now < due
            /\ \E due \in BagToSet(bulk.timers) :
                  /\ \A other \in BagToSet(bulk.timers) : due <= other
                  /\ now' = due
       ELSE /\ bulk.txCache.set /\ now - bulk.txCache.fetchedAt < TX_CACHE_TTL_MS
            /\ now' = now + TX_CACHE_TTL_MS
    /\ UNCHANGED bulk
    /\ BulkFrame

NextBulk ==
    \/ \E memo \in AskedMemos : BulkVerify(memo)
    \/ BulkBurst
    \/ TimerFires
    \/ FetchSettles
    \/ BulkTick

SpecBulk == InitBulk /\ [][NextBulk]_vars

\* The same BulkVerifier with MaxLiveCalls turns of its callers, where timers
\* fire when due, fetches return or throw, and time passes.
MaxLiveCalls == 2

LiveVerify(memo) ==
    /\ bulk.turns < MaxLiveCalls
    /\ bulk' = [BulkVerifier_verify(bulk, memo, now) EXCEPT !.turns = @ + 1]
    /\ UNCHANGED now
    /\ BulkFrame

LiveBurst ==
    /\ bulk.turns < MaxLiveCalls
    /\ bulk' = [VerifyEach(bulk, 1, COALESCE_MAX_PENDING, now) EXCEPT !.turns = @ + 1]
    /\ UNCHANGED now
    /\ BulkFrame

NextBulkLive ==
    \/ \E memo \in AskedMemos : LiveVerify(memo)
    \/ LiveBurst
    \/ TimerFires
    \/ FetchSettles
    \/ BulkTick

FairSpecBulk ==
    /\ InitBulk /\ [][NextBulkLive]_vars
    /\ WF_vars(TimerFires) /\ WF_vars(FetchSettles) /\ WF_vars(BulkTick)

\* What a fresh chain fetch answers for memo.
Expected(memo) ==
    IF memo \in PaidMemos THEN [paid |-> TRUE, txSignature |-> memo, amount |-> 1]
    ELSE [paid |-> FALSE, txSignature |-> 0, amount |-> 0]

SettledCalls == { c \in 1..Len(bulk.calls) : bulk.calls[c].state # "pending" }

\* C33 as stated: a verify call that arrives while a coalescing window is
\* open (a call is pending, the first one for less than 50 ms, and fewer than
\* 20 memos are pending) is resolved by the chain fetch that resolves the
\* first pending call, with the result for its own memo.
C33_WindowSharesOneFetch ==
    \A c \in SettledCalls :
        bulk.calls[c].open =>
            /\ bulk.calls[c].by = bulk.calls[c].head
            /\ bulk.calls[c].state = "resolved" =>
                  bulk.calls[c].result = Expected(bulk.calls[c].memo)

\* C33, amended: a verify call that arrives while a coalescing window is
\* open and that is not answered from the transaction cache is settled by
\* the chain fetch that settles the first pending call: resolved with the
\* result for its own memo, or rejected with the others when the fetch throws.
C33_PendingSharesOneFetch ==
    \A c \in SettledCalls :
        (bulk.calls[c].open /\ bulk.calls[c].by # -1) =>
            /\ bulk.calls[c].by = bulk.calls[c].head
            /\ bulk.calls[bulk.calls[c].head].state = bulk.calls[c].state
            /\ bulk.calls[c].state = "resolved" =>
                  bulk.calls[c].result = Expected(bulk.calls[c].memo)

\* A call that joined an open window for another memo than the first
\* pending call's has been resolved by the same fetch.
C33_Witness ==
    \E c \in SettledCalls :
        /\ bulk.calls[c].open /\ bulk.calls[c].state = "resolved"
        /\ bulk.calls[c].by = bulk.calls[c].head
        /\ bulk.calls[c].memo # bulk.calls[bulk.calls[c].head].memo
        /\ bulk.calls[c].result.paid

\* C34: a verify call answered from the transaction cache returns what a
\* fresh chain fetch for its memo would return, whether or not the memo was
\* part of the batch that filled the cache.
C34_CacheAnswersAsFetch ==
    \A c \in SettledCalls :
        bulk.calls[c].by = -1 => bulk.calls[c].result = Expected(bulk.calls[c].memo)

\* C38: every promise returned by verify is resolved or rejected in the
\* end: from some moment on no promise is pending.
C38_EveryPromiseSettles ==
    <>[](SettledCalls = 1..Len(bulk.calls))

\* Promises of a turn that filled the batch to the cap have been rejected
\* and no promise is pending.
C38_Witness ==
    /\ Len(bulk.calls) >= COALESCE_MAX_PENDING
    /\ SettledCalls = 1..Len(bulk.calls)
    /\ \E c \in SettledCalls : bulk.calls[c].state = "rejected"
    /\ \E c \in SettledCalls : bulk.calls[c].state = "resolved" /\ bulk.calls[c].by = c

\* C39: at most one coalescing timer is scheduled at any time and _flush
\* never runs on an empty batch.
C39_OneTimerNoEmptyFlush ==
    /\ BagCardinality(bulk.timers) <= 1
    /\ ~bulk.emptyFlushed

(***************************************************************************)
(* SpecHub: POST /api/tool/pay of the wallet hub (src/unnamed/part_009     *)
(* lines 660-757) for one user and one tool key.  hub holds the payments   *)
(* store (the payments table, or the payments of the JSON file), the       *)
(* transfers that transferUsdc has executed, and the requests with the     *)
(* await each of them has reached.  With Postgres every query is an await  *)
(* of its own; with the file, authTool reads the file once (req.db) and    *)
(* the checks read that copy, which writeDb later writes back whole.       *)
(* Amounts are whole units; the wallet holds enough USDC and SOL for every *)
(* payment; the rate limit of 120 requests is never reached.               *)
(***************************************************************************)
MaxPayRequests == 3
MaxHubTicks == 2
DAY_MS == 86400000
HalfDay == DAY_MS \div 2

\* policy.maxSolPerPayment and policy.dailySolCap of getPolicy(user, apiKey)
maxSolPerPayment == 2
dailySolCap == 2

\* x-idempotency-key: 0 stands for a missing or blank header
IdemKeys == {0, 1}
Amounts == {1, 2, 3}

RECURSIVE PaidSince(_, _)
\* the sum of the amounts of the payments created at or after since
PaidSince(payments, since) ==
    IF payments = <<>> THEN 0
    ELSE (IF payments[1].createdAt >= since THEN payments[1].amountSol ELSE 0)
         + PaidSince(Tail(payments), since)

\* req.db.payments.find / SELECT ... WHERE idempotency_key = $2 LIMIT 1
FindPayment(payments, idem) ==
    LET found == { i \in 1..Len(payments) : payments[i].idempotencyKey = idem }
    IN  IF found = {} THEN 0 ELSE CHOOSE i \in found : \A j \in found : i <= j

\* The payments a request reads: the table, or its own copy of the file.
Stored(h, r) == IF h.postgres THEN h.payments ELSE h.reqs[r].db

\* a transfer with the request's key has been executed for another request
PriorTransfer(h, r) ==
    /\ h.reqs[r].idem # 0
    /\ \E i \in 1..Len(h.transfers) :
          h.transfers[i].idempotencyKey = h.reqs[r].idem /\ h.transfers[i].by # r

\* res.status(status).json(...): the request is answered
PayRespond(h, r, status, replay, signature) ==
    [h EXCEPT !.reqs[r].pc = "done", !.reqs[r].status = status,
              !.reqs[r].replay = replay, !.reqs[r].signature = signature,
              !.reqs[r].prior = PriorTransfer(h, r)]

InitHub ==
    /\ now = StartTime
    /\ paymentCache = <<>>
    /\ hits = EmptyMap
    /\ refHits = EmptyMap
    /\ windows = EmptyMap
    /\ merchantConfig = [fetched |-> FALSE]
    /\ config = NoConfig
    /\ last = [op |-> "init"]
    /\ ledger = EmptyMap
    /\ inflight = EmptyMap
    /\ warnings = 0
    /\ bulk = NoBulk
    /\ \E pg \in BOOLEAN :
          hub = [on |-> TRUE, postgres |-> pg, payments |-> <<>>, transfers |-> <<>>,
                 reqs |-> <<>>, ticks |-> 0]

HubFrame ==
    UNCHANGED <<paymentCache, hits, refHits, windows, merchantConfig, config, last, ledger,
                inflight, warnings, bulk>>

\* authTool and the validation of the body: the request is accepted, and
\* without Postgres it holds the file as read by readDb().
PayArrives(idem, amount) ==
    /\ Len(hub.reqs) < MaxPayRequests
    /\ hub' = [hub EXCEPT !.reqs = Append(@,
                 [idem |-> idem, amount |-> amount, pc |-> "idem",
                  db |-> IF hub.postgres THEN <<>> ELSE hub.payments,
                  status |-> 0, replay |-> FALSE, signature |-> 0, createdAt |-> 0,
                  prior |-> FALSE])]
    /\ UNCHANGED now
    /\ HubFrame

\* lines 672-688: a stored payment with the key is replayed
PayIdempotency(r) ==
    /\ r <= Len(hub.reqs)
    /\ hub.reqs[r].pc = "idem"
    /\ LET existing == FindPayment(Stored(hub, r), hub.reqs[r].idem)
       IN  hub' = IF hub.reqs[r].idem # 0 /\ existing # 0
                  THEN PayRespond(hub, r, 200, TRUE, Stored(hub, r)[existing].signature)
                  ELSE [hub EXCEPT !.reqs[r].pc = "policy"]
    /\ UNCHANGED now
    /\ HubFrame

\* lines 690-708: the per-payment limit and the daily cap
PayPolicy(r) ==
    /\ r <= Len(hub.reqs)
    /\ hub.reqs[r].pc = "policy"
    /\ LET paidToday == PaidSince(Stored(hub, r), now - DAY_MS)
       IN  hub' = IF hub.reqs[r].amount > maxSolPerPayment THEN PayRespond(hub, r, 403, FALSE, 0)
                  ELSE IF paidToday + hub.reqs[r].amount > dailySolCap
                       THEN PayRespond(hub, r, 403, FALSE, 0)
                       ELSE [hub EXCEPT !.reqs[r].pc = "transfer"]
    /\ UNCHANGED now
    /\ HubFrame

\* lines 717-731: transferUsdc returns a new signature or throws
PayTransfer(r, ok) ==
    /\ r <= Len(hub.reqs)
    /\ hub.reqs[r].pc = "transfer"
    /\ hub' = IF ok
              THEN LET signature == Len(hub.transfers) + 1
                   IN  [hub EXCEPT !.transfers = Append(@,
                                      [idempotencyKey |-> hub.reqs[r].idem,
                                       amountSol |-> hub.reqs[r].amount,
                                       signature |-> signature, createdAt |-> now, by |-> r]),
                                   !.reqs[r].signature = signature,
                                   !.reqs[r].createdAt = now,
                                   !.reqs[r].pc = "insert"]
              ELSE PayRespond(hub, r, 500, FALSE, 0)
    /\ UNCHANGED now
    /\ HubFrame

\* lines 733-754: the payment is stored.  The INSERT fails on the unique
\* index (user_id, idempotency_key) of line 136; writeDb writes the
\* request's copy of the file with the payment added.
PayInsert(r) ==
    /\ r <= Len(hub.reqs)
    /\ hub.reqs[r].pc = "insert"
    /\ LET payment == [idempotencyKey |-> hub.reqs[r].idem, amountSol |-> hub.reqs[r].amount,
                       signature |-> hub.reqs[r].signature,
                       createdAt |-> hub.reqs[r].createdAt]
       IN  hub' = IF hub.postgres
                  THEN IF hub.reqs[r].idem # 0 /\ FindPayment(hub.payments, hub.reqs[r].idem) # 0
                       THEN PayRespond(hub, r, 500, FALSE, 0)
                       ELSE PayRespond([hub EXCEPT !.payments = Append(@, payment)],
                                    r, 200, FALSE, hub.reqs[r].signature)
                  ELSE PayRespond([hub EXCEPT !.payments = Append(hub.reqs[r].db, payment)],
                               r, 200, FALSE, hub.reqs[r].signature)
    /\ UNCHANGED now
    /\ HubFrame

\* Twelve hours pass.
HubTick ==
    /\ hub.ticks < MaxHubTicks
    /\ now' = now + HalfDay
    /\ hub' = [hub EXCEPT !.ticks = @ + 1]
    /\ HubFrame

NextHub ==
    \/ \E idem \in IdemKeys, amount \in Amounts : PayArrives(idem, amount)
    \/ \E r \in 1..MaxPayRequests : PayIdempotency(r)
    \/ \E r \in 1..MaxPayRequests : PayPolicy(r)
    \/ \E r \in 1..MaxPayRequests, ok \in BOOLEAN : PayTransfer(r, ok)
    \/ \E r \in 1..MaxPayRequests : PayInsert(r)
    \/ HubTick

SpecHub == InitHub /\ [][NextHub]_vars

\* C35: for a non-empty idempotency key at most one transfer is executed,
\* and every request with the key that is answered when a transfer with the
\* key has been executed for another request, after it or concurrently with
\* it, gets 200 with replay = true and the signature of that transfer.
C35_OneTransferPerKey ==
    \A k \in IdemKeys \ {0} :
        LET made == { i \in 1..Len(hub.transfers) : hub.transfers[i].idempotencyKey = k }
        IN  /\ Cardinality(made) <= 1
            /\ \A r \in 1..Len(hub.reqs) :
                  (hub.reqs[r].idem = k /\ hub.reqs[r].pc = "done" /\ hub.reqs[r].prior) =>
                      /\ hub.reqs[r].status = 200
                      /\ hub.reqs[r].replay
                      /\ \E i \in made : hub.transfers[i].signature = hub.reqs[r].signature

\* C36: the amounts of the transfers executed in the preceding 24 hours
\* never sum to more than the daily cap, and a request answered 403 has
\* executed no transfer.
C36_DailyCapHolds ==
    /\ PaidSince(hub.transfers, now - DAY_MS) <= dailySolCap
    /\ \A r \in 1..Len(hub.reqs) :
          hub.reqs[r].status = 403 =>
              ~ \E i \in 1..Len(hub.transfers) : hub.transfers[i].by = r

====
